---- MODULE Spec2Model ----
(***************************************************************************)
(* The Parsian connection/session layer: the request/response correlators  *)
(* (BrowserExtensionManager.sendRequest and the chat panel's response_<id> *)
(* handlers on ParsianServer), and ParsianServer's port/lock-file          *)
(* bootstrap (start, stop, findFreePort, isPortFree).                      *)
(***************************************************************************)
EXTENDS Integers, Sequences, FiniteSets, TLC

VARIABLES
    \* ---- which request issuer the extension host drives
    issuer,
    \* ---- uuid generator
    uuidCount,
    reqOwner,
    reqAction,
    \* ---- BrowserExtensionManager
    isBrowserExtensionInstalled,
    bemPort,
    pendingRequests,
    timeoutTimer,
    timeoutIn,
    simTimer,
    simIn,
    settleCalls,
    \* ---- ChatPanelProvider
    chatPosts,
    handlerCalls,
    \* ---- ParsianServer instances
    browserClients,
    vscodeClients,
    messageHandlers,
    port,
    wss,
    pc,
    probeIdx,
    probing,
    lockPort,
    findPhase,
    startsLeft,
    \* ---- operating system: sockets, listening ports, the lock file
    readyState,
    sent,
    held,
    lockFile,
    lockWriter,
    lockAtStart,
    startResult,
    external,
    \* ---- which server's listeners a socket carries; the sockets accepted
    \* ---- since the server was created; stop() calls that found no server,
    \* ---- each with the writer of the lock file at that time
    acceptedBy,
    arrivals,
    idleStops,
    \* ---- the number of handleMessage calls so far, modulo 2
    inboundCount,
    \* ---- the message ProtocolManager built last, and what parseMessage made
    \* ---- of its stringifyMessage text
    built,
    roundTrip,
    \* ---- the last call of parseMessage or of the validators on a value from
    \* ---- outside: its argument and what it returned (the three variables
    \* ---- hold the latest ProtocolManager operation only)
    call,
    \* ---- ConnectionManager: this.server (0: null, else the ParsianServer it
    \* ---- created), this.isConnected, whether statusBarItem is there, the
    \* ---- status timers of startServer not yet fired, and what the startServer
    \* ---- call that created each server has returned
    managerServer,
    managerConnected,
    statusBarItem,
    statusTimers,
    startServerResult,
    \* ---- background service worker of the browser extension: its globals,
    \* ---- the badge, the client sockets that are open, the connectToWebSocket
    \* ---- calls under way, the triggers still to come, failed calls in a row
    websocket,
    reconnectAttempts,
    badge,
    clientOpen,
    chain,
    manualLeft,
    startupPending,
    failedInRow,
    \* ---- its outbound messages: the pendingMessages Map in insertion order,
    \* ---- the retrySendMessage calls waiting on their timer, Date.now(), what
    \* ---- was written to each socket, the sendWithRetry calls made, the
    \* ---- throws of websocket.send still to come; the messages handed over
    \* ---- while not connected, how many of them an open event has met, and
    \* ---- the messages given up at the retry ceiling
    pendingMessages,
    retries,
    now,
    wire,
    sendCalls,
    throwsLeft,
    closedSends,
    flushedUpTo,
    gaveUp

corrVars == <<uuidCount, reqOwner, reqAction, isBrowserExtensionInstalled, bemPort,
              pendingRequests, timeoutTimer, timeoutIn, simTimer, simIn,
              settleCalls, chatPosts, handlerCalls, readyState, sent,
              issuer>>
peerVars == <<browserClients, vscodeClients, messageHandlers>>
bootVars == <<port, wss, pc, probeIdx, probing, lockPort, findPhase, startsLeft, held, lockFile,
              lockWriter, lockAtStart, startResult, external>>
epochVars == <<acceptedBy, arrivals, idleStops, inboundCount>>
codecVars == <<built, roundTrip, call>>
connVars == <<managerServer, managerConnected, statusBarItem, statusTimers,
              startServerResult>>
queueVars == <<pendingMessages, retries, now, wire, sendCalls, throwsLeft,
               closedSends, flushedUpTo, gaveUp>>
clientVars == <<websocket, reconnectAttempts, badge, clientOpen, chain, manualLeft,
                startupPending, failedInRow, queueVars>>
vars == <<corrVars, peerVars, bootVars, epochVars, codecVars, connVars, clientVars>>

(***************************************************************************)
(* Bounds of the model.                                                    *)
(***************************************************************************)
MaxRequests == 2
MaxInbound == 2
MaxReplies == 1
MaxStarts == 2
NumEphemeral == 2
MaxIdleStops == 1
MaxChains == 2
MaxManual == 1
MaxSends == 2
MaxLog == 2
MaxThrows == 1
ShortTimeout == 100

(***************************************************************************)
(* Program constants.                                                      *)
(***************************************************************************)
DefaultTimeout == 30000
SimulateDelay == 1000
FirstCommonPort == 8765
LastCommonPort == 8769
NaN == -1
FirstEphemeralPort == 49152
MAX_RECONNECT_ATTEMPTS == 5
ERROR_RETRY_ATTEMPTS == 3

IdNames == <<"a", "b", "c", "d">>
Uuid(n) == IdNames[n]
Ids == {Uuid(n) : n \in 1..MaxRequests}
UnknownId == "zz"
Timeouts == {ShortTimeout, DefaultTimeout}
Instances == {1, 2}
PanelServer == 1
Sockets == {1, 2, 3}
PanelSockets == {1}
Chains == 1..MaxChains
\* the values Date.now() takes
Times == {0, 1}
ActionTypes == {"CODE_SUGGEST", "EXPLAIN", "RUN_COMMAND"}

(***************************************************************************)
(* Text of the lock file: a sequence of characters.                        *)
(***************************************************************************)
DigitChars == <<"0", "1", "2", "3", "4", "5", "6", "7", "8", "9">>
IsDigit(c) == \E d \in 1..10 : DigitChars[d] = c
DigitVal(c) == (CHOOSE d \in 1..10 : DigitChars[d] = c) - 1
IsSpace(c) == c \in {" ", "\n"}

RECURSIVE NumToString(_)
NumToString(n) ==
    IF n < 10 THEN <<DigitChars[n + 1]>>
    ELSE NumToString(n \div 10) \o <<DigitChars[(n % 10) + 1]>>

RECURSIVE TrimLeft(_)
TrimLeft(s) ==
    IF s # <<>> /\ IsSpace(Head(s)) THEN TrimLeft(Tail(s)) ELSE s

RECURSIVE TrimRight(_)
TrimRight(s) ==
    IF s # <<>> /\ IsSpace(s[Len(s)]) THEN TrimRight(SubSeq(s, 1, Len(s) - 1))
    ELSE s

Trim(s) == TrimRight(TrimLeft(s))

RECURSIVE ParseDigits(_, _)
ParseDigits(s, acc) ==
    IF s # <<>> /\ IsDigit(Head(s))
    THEN ParseDigits(Tail(s), 10 * acc + DigitVal(Head(s)))
    ELSE acc

\* parseInt: leading white space skipped, then the longest digit prefix;
\* NaN when there is none.
ParseInt(s) ==
    LET t == TrimLeft(s)
    IN  IF t # <<>> /\ IsDigit(Head(t)) THEN ParseDigits(t, 0) ELSE NaN

Truthy(n) == n # NaN /\ n # 0

(***************************************************************************)
(* JSON values on the wire.  A value is [t, v]: t is the JavaScript kind,  *)
(* v the string it carries (an array is a one-element array of a string).  *)
(***************************************************************************)
Str(x) == [t |-> "string", v |-> x]
Arr1(x) == [t |-> "array", v |-> x]
Obj(x) == [t |-> "object", v |-> x]
Null == [t |-> "null", v |-> ""]
Undef == [t |-> "undefined", v |-> ""]

\* typeof
TypeOf(val) ==
    CASE val.t = "string" -> "string"
      [] val.t = "undefined" -> "undefined"
      [] val.t \in {"number", "boolean", "function"} -> val.t
      [] OTHER -> "object"

\* `${val}`
TemplateString(val) ==
    CASE val.t = "string" -> val.v
      [] val.t = "array" -> val.v
      [] val.t = "null" -> "null"
      [] val.t = "undefined" -> "undefined"
      [] OTHER -> "[object Object]"

\* if (val)
JsTruthy(val) ==
    CASE val.t = "string" -> val.v # ""
      [] val.t \in {"null", "undefined"} -> FALSE
      [] val.t = "number" -> val.v \notin {"0", "NaN"}
      [] val.t = "boolean" -> val.v = "true"
      [] OTHER -> TRUE

\* val === "x"
StrictEq(val, x) == val.t = "string" /\ val.v = x

\* A message as received: json is "bad" (JSON.parse throws), "null" (the JSON
\* text null), "primitive" (a number, string, boolean or array, none of whose
\* properties read here exists) or "object"; the fields of an object that are
\* absent are Undef.
Wire(json, id, system_role, action_type, user_query, request_id, status, data, type) ==
    [json |-> json, id |-> id, system_role |-> system_role,
     action_type |-> action_type, user_query |-> user_query,
     request_id |-> request_id, status |-> status, data |-> data, type |-> type,
     message |-> Undef]

BadJson == Wire("bad", Undef, Undef, Undef, Undef, Undef, Undef, Undef, Undef)
NullJson == Wire("null", Undef, Undef, Undef, Undef, Undef, Undef, Undef, Undef)
PrimitiveJson == Wire("primitive", Undef, Undef, Undef, Undef, Undef, Undef, Undef, Undef)
NoticeMsg(type) ==
    Wire("object", Undef, Undef, Undef, Undef, Undef, Undef, Undef, Str(type))
ResponseMsg(rid, status, data) ==
    Wire("object", Undef, Undef, Undef, Undef, rid, Str(status), data, Undef)
RequestMsg(id, action) ==
    Wire("object", Str(id), Str("STRICT_JSON_ONLY_MODE"), Str(action), Str("q"),
         Undef, Undef, Undef, Undef)
\* a Request that also carries a request_id field
TaggedRequestMsg(id, action, rid) ==
    [RequestMsg(id, action) EXCEPT !.request_id = rid]

ValidateRequest(m) ==
    /\ m.json = "object"
    /\ TypeOf(m.id) = "string"
    /\ StrictEq(m.system_role, "STRICT_JSON_ONLY_MODE")
    /\ \E a \in ActionTypes : StrictEq(m.action_type, a)
    /\ TypeOf(m.user_query) = "string"

ValidateResponse(m) ==
    /\ m.json = "object"
    /\ TypeOf(m.request_id) = "string"
    /\ (StrictEq(m.status, "success") \/ StrictEq(m.status, "error"))
    /\ TypeOf(m.data) = "object"

\* parseMessage: the parsed value, or null (FALSE here) when JSON.parse throws,
\* when a validator throws on null, or when neither validator accepts.
ParseMessageOk(m) ==
    /\ m.json = "object"
    /\ (ValidateRequest(m) \/ ValidateResponse(m))

(***************************************************************************)
(* BrowserExtensionManager: sendRequest and what resolves its promise.     *)
(* settleCalls[id] lists the calls made to the promise's resolve/reject.   *)
(***************************************************************************)
Outcome(status) == IF StrictEq(status, "error") THEN "error" ELSE "success"

Settled(calls, id, outcome) == [calls EXCEPT ![id] = Append(@, outcome)]

\* faulty variant: the timer is left armed
ClearTimeoutLeftArmed(timers, id) == timers

\* clearTimeout(timeoutId)
ClearTimeout(timers, id) ==
    [timers EXCEPT ![id] = IF @ = "armed" THEN "cleared" ELSE @]

\* readPortFromLockFile: <<port>>, or <<>> for null
ReadPortFromLockFile ==
    IF lockFile.exists /\ ParseInt(Trim(lockFile.text)) # NaN
    THEN <<ParseInt(Trim(lockFile.text))>>
    ELSE <<>>

\* getPort: this.port when truthy, else what the lock file gives
GetPortResult ==
    IF bemPort # <<>> /\ bemPort[1] # 0 THEN bemPort ELSE ReadPortFromLockFile

\* pendingRequests entry of a Response-like value: the id its request_id
\* selects in the Map, if any (Map keys compare without conversion)
PendingFor(rid) ==
    IF rid.t = "string" /\ rid.v \in pendingRequests THEN {rid.v} ELSE {}

\* faulty variant: the entry is kept in pendingRequests
ResolvePendingKept(id, outcome) ==
    /\ pendingRequests' = pendingRequests
    /\ timeoutTimer' = ClearTimeout(timeoutTimer, id)
    /\ settleCalls' = Settled(settleCalls, id, outcome)

\* pending.resolve(response) after pendingRequests.delete(id)
ResolvePending(id, outcome) ==
    /\ pendingRequests' = pendingRequests \ {id}
    /\ timeoutTimer' = ClearTimeout(timeoutTimer, id)
    /\ settleCalls' = Settled(settleCalls, id, outcome)

BemSendRequest(action, timeout) ==
    /\ issuer = "bem"
    /\ uuidCount < MaxRequests
    /\ LET id == Uuid(uuidCount + 1)
           p == GetPortResult
       IN  /\ uuidCount' = uuidCount + 1
           /\ reqOwner' = [reqOwner EXCEPT ![id] = "bem"]
           /\ reqAction' = [reqAction EXCEPT ![id] = action]
           /\ IF ~isBrowserExtensionInstalled
              THEN /\ settleCalls' = Settled(settleCalls, id, "error")
                   /\ UNCHANGED <<bemPort, pendingRequests, timeoutTimer,
                                  timeoutIn, simTimer, simIn>>
              ELSE /\ bemPort' = (IF p = <<>> THEN bemPort ELSE p)
                   /\ IF p = <<>> \/ p[1] = 0
                      THEN /\ settleCalls' = Settled(settleCalls, id, "error")
                           /\ UNCHANGED <<pendingRequests, timeoutTimer,
                                          timeoutIn, simTimer, simIn>>
                      ELSE /\ timeoutTimer' = [timeoutTimer EXCEPT ![id] = "armed"]
                           /\ timeoutIn' = [timeoutIn EXCEPT ![id] = timeout]
                           /\ pendingRequests' = pendingRequests \cup {id}
                           /\ simTimer' = [simTimer EXCEPT ![id] = "armed"]
                           /\ simIn' = [simIn EXCEPT ![id] = SimulateDelay]
                           /\ UNCHANGED settleCalls
    /\ UNCHANGED <<isBrowserExtensionInstalled, chatPosts, handlerCalls,
                   readyState, sent, issuer, peerVars, bootVars>>
    /\ UNCHANGED <<epochVars, codecVars, connVars, clientVars>>

\* the setTimeout(..., timeout) callback of sendRequest
BemTimeoutFires(id) ==
    /\ issuer = "bem"
    /\ timeoutTimer[id] = "armed"
    /\ timeoutIn[id] = 0
    /\ timeoutTimer' = [timeoutTimer EXCEPT ![id] = "fired"]
    /\ pendingRequests' = pendingRequests \ {id}
    /\ settleCalls' = Settled(settleCalls, id, "timeout")
    /\ UNCHANGED <<uuidCount, reqOwner, reqAction, isBrowserExtensionInstalled,
                   bemPort, timeoutIn, simTimer, simIn, chatPosts,
                   handlerCalls, readyState, sent, issuer, peerVars,
                   bootVars>>
    /\ UNCHANGED <<epochVars, codecVars, connVars, clientVars>>

\* status of the response simulateResponse builds for a request
SimulatedStatus(action) ==
    IF action \in ActionTypes THEN Str("success") ELSE Str("error")

\* the setTimeout(..., 1000) callback of sendRequest: simulateResponse
BemSimulateResponse(id) ==
    /\ issuer = "bem"
    /\ simTimer[id] = "armed"
    /\ simIn[id] = 0
    /\ simTimer' = [simTimer EXCEPT ![id] = "fired"]
    /\ IF id \in pendingRequests
       THEN ResolvePending(id, Outcome(SimulatedStatus(reqAction[id])))
       ELSE UNCHANGED <<pendingRequests, timeoutTimer, settleCalls>>
    /\ UNCHANGED <<uuidCount, reqOwner, reqAction, isBrowserExtensionInstalled,
                   bemPort, timeoutIn, simIn, chatPosts, handlerCalls,
                   readyState, sent, issuer, peerVars, bootVars>>
    /\ UNCHANGED <<epochVars, codecVars, connVars, clientVars>>

BemHandleIncomingMessage(m) ==
    /\ issuer = "bem"
    /\ IF ParseMessageOk(m) /\ m.request_id # Undef /\ PendingFor(m.request_id) # {}
       THEN ResolvePending(m.request_id.v, Outcome(m.status))
       ELSE UNCHANGED <<pendingRequests, timeoutTimer, settleCalls>>
    /\ UNCHANGED <<uuidCount, reqOwner, reqAction, isBrowserExtensionInstalled,
                   bemPort, timeoutIn, simTimer, simIn, chatPosts,
                   handlerCalls, readyState, sent, issuer, peerVars,
                   bootVars>>
    /\ UNCHANGED <<epochVars, codecVars, connVars, clientVars>>

BemDispose ==
    /\ issuer = "bem"
    /\ pendingRequests # {}
    /\ pendingRequests' = {}
    /\ UNCHANGED <<uuidCount, reqOwner, reqAction, isBrowserExtensionInstalled,
                   bemPort, timeoutTimer, timeoutIn, simTimer, simIn,
                   settleCalls, chatPosts, handlerCalls, readyState, sent,
                   issuer, peerVars, bootVars>>
    /\ UNCHANGED <<epochVars, codecVars, connVars, clientVars>>

BemInstallBrowserExtension ==
    /\ issuer = "bem"
    /\ ~isBrowserExtensionInstalled
    /\ isBrowserExtensionInstalled' = TRUE
    /\ UNCHANGED <<uuidCount, reqOwner, reqAction, bemPort, pendingRequests,
                   timeoutTimer, timeoutIn, simTimer, simIn, settleCalls,
                   chatPosts, handlerCalls, readyState, sent, issuer,
                   peerVars, bootVars>>
    /\ UNCHANGED <<epochVars, codecVars, connVars, clientVars>>

\* Time passes until the next armed timer is due; timeoutIn and simIn are
\* the times the timers still have to run.
Remaining ==
    {timeoutIn[id] : id \in {x \in Ids : timeoutTimer[x] = "armed"}}
        \cup {simIn[id] : id \in {x \in Ids : simTimer[x] = "armed"}}

Elapse(left, d) == IF left > d THEN left - d ELSE 0

Tick ==
    /\ issuer = "bem"
    /\ \E d \in Remaining :
          /\ d > 0
          /\ \A e \in Remaining : e > 0 => d <= e
          /\ timeoutIn' = [id \in Ids |->
                              IF timeoutTimer[id] = "armed"
                              THEN Elapse(timeoutIn[id], d) ELSE timeoutIn[id]]
          /\ simIn' = [id \in Ids |->
                          IF simTimer[id] = "armed"
                          THEN Elapse(simIn[id], d) ELSE simIn[id]]
    /\ UNCHANGED <<uuidCount, reqOwner, reqAction, isBrowserExtensionInstalled,
                   bemPort, pendingRequests, timeoutTimer, simTimer,
                   settleCalls, chatPosts, handlerCalls, readyState,
                   sent, issuer, peerVars, bootVars>>
    /\ UNCHANGED <<epochVars, codecVars, connVars, clientVars>>

(***************************************************************************)
(* ParsianServer: peers, the handler table, handleMessage.                 *)
(* browserClients and vscodeClients are JavaScript Sets: insertion order   *)
(* is kept, so they are sequences without repetition.                      *)
(***************************************************************************)
Range(q) == {q[k] : k \in 1..Len(q)}

\* faulty variant: Set.delete removes nothing
WithoutNothing(q, x) == q

RECURSIVE Without(_, _)
Without(q, x) ==
    IF q = <<>> THEN <<>>
    ELSE IF Head(q) = x THEN Without(Tail(q), x)
    ELSE <<Head(q)>> \o Without(Tail(q), x)

\* Set.add
SetAdd(q, x) == IF x \in Range(q) THEN q ELSE Append(q, x)

ResponseKey(id) == "response_" \o id

\* Map.set / Map.delete on one server's handler table; the value stored is
\* the request id the registered closure was created for
MapSet(f, key, x) ==
    [k \in DOMAIN f \cup {key} |-> IF k = key THEN x ELSE f[k]]
MapDelete(f, key) == [k \in DOMAIN f \ {key} |-> f[k]]

\* faulty variant: the handler is kept in the table
UnregisterMessageHandlerKept(handlers, i, key) == handlers

\* registerMessageHandler / unregisterMessageHandler
RegisterMessageHandler(handlers, i, key, x) ==
    [handlers EXCEPT ![i] = MapSet(@, key, x)]
UnregisterMessageHandler(handlers, i, key) ==
    [handlers EXCEPT ![i] = MapDelete(@, key)]

\* sendMessageToClient: written only to an OPEN socket
SendMessageToClient(log, s, msg) ==
    IF readyState[s] = "OPEN" THEN [log EXCEPT ![s] = Append(@, msg)] ELSE log

\* the object sendError builds
ErrorResponse(requestId, text) ==
    [Wire("object", Undef, Undef, Undef, Undef, requestId, Str("error"), Undef, Undef)
        EXCEPT !.message = Str(text)]

\* the placeholder responses of handleCodeSuggestion, handleExplanationRequest
\* and handleCommandRequest
PlaceholderResponse(m) ==
    ResponseMsg(m.id, "success",
                IF StrictEq(m.action_type, "CODE_SUGGEST") THEN Obj("code") ELSE Obj("text"))

Ack == Wire("object", Undef, Undef, Undef, Undef, Undef, Undef, Undef, Str("ack"))

\* the key under which handleMessage looks a handler up, "" when it looks
\* none up: the action_type itself, else response_<request_id>
LookupKey(m) ==
    IF JsTruthy(m.action_type)
    THEN (IF m.action_type.t = "string" THEN m.action_type.v ELSE "")
    ELSE IF JsTruthy(m.request_id)
    THEN ResponseKey(TemplateString(m.request_id))
    ELSE ""

\* the chat panel's responseHandler for request x, given data: what it posts
\* to the webview, whether it unregisters itself, whether it throws
\* faulty variant: the handler takes any message for its own
HandlerMatchesAny(x, m) == TRUE

HandlerMatches(x, m) == StrictEq(m.request_id, x)

HandlerThrows(x, m) ==
    /\ HandlerMatches(x, m)
    /\ StrictEq(m.status, "success")
    /\ ~(m.data.t = "object" /\ m.data.v \in {"code", "text"})

HandlerPosts(x, m) ==
    IF ~HandlerMatches(x, m) THEN <<>>
    ELSE IF ~StrictEq(m.status, "success") THEN <<"hideTyping", "error">>
    ELSE IF HandlerThrows(x, m) THEN <<"hideTyping">>
    ELSE IF m.data.v = "code" THEN <<"hideTyping", "showApplyCodeButton">>
    ELSE <<"hideTyping", "aiResponse">>

\* faulty variant: no default reply at all
DefaultReplyNone(m) == <<>>

\* what handleMessage writes back to the sending socket when no custom
\* handler takes the message (<<>>: nothing)
DefaultReply(m) ==
    IF JsTruthy(m.action_type)
    THEN (IF \E a \in ActionTypes : StrictEq(m.action_type, a)
          THEN <<PlaceholderResponse(m)>>
          ELSE <<ErrorResponse(m.id, "Unknown action type")>>)
    ELSE IF JsTruthy(m.request_id) THEN <<>>
    ELSE IF \E t \in {"ai_response", "rate_limit_detected", "captcha_detected"} :
                StrictEq(m.type, t)
    THEN <<Ack>>
    ELSE <<>>

\* faulty variant: the first send that throws ends the broadcast
RECURSIVE SendAllAbort(_, _, _, _)
SendAllAbort(log, q, msg, failing) ==
    IF q = <<>> THEN log
    ELSE IF Head(q) \in failing /\ readyState[Head(q)] = "OPEN" THEN log
    ELSE SendAllAbort(SendMessageToClient(log, Head(q), msg), Tail(q), msg, failing)

\* broadcastMessage: the message is written to every OPEN editor-side peer
\* whose send does not throw
RECURSIVE SendAll(_, _, _, _)
SendAll(log, q, msg, failing) ==
    IF q = <<>> THEN log
    ELSE SendAll(IF Head(q) \in failing THEN log
                 ELSE SendMessageToClient(log, Head(q), msg),
                 Tail(q), msg, failing)

\* broadcastMessage: a peer whose send throws is deleted from vscodeClients
RECURSIVE DropFailed(_, _)
DropFailed(q, failing) ==
    IF q = <<>> THEN <<>>
    ELSE IF Head(q) \in failing /\ readyState[Head(q)] = "OPEN"
    THEN DropFailed(Tail(q), failing)
    ELSE <<Head(q)>> \o DropFailed(Tail(q), failing)

\* the message is one handleAIResponse takes
IsAiResponse(m) ==
    /\ ~JsTruthy(m.action_type)
    /\ ~JsTruthy(m.request_id)
    /\ StrictEq(m.type, "ai_response")

\* the message goes to handleCodeSuggestion, handleExplanationRequest or
\* handleCommandRequest, whose reply is sent by sendMessageWithErrorHandling
IsDefaultRequest(m) ==
    /\ JsTruthy(m.action_type)
    /\ \E a \in ActionTypes : StrictEq(m.action_type, a)

\* the object handleAIResponse broadcasts
Forwarded ==
    Wire("object", Undef, Undef, Undef, Undef, Undef, Undef, Undef,
         Str("ai_response"))

\* broadcastMessage of the forwarded ai_response, then the default reply;
\* failing: the peers for which a send inside a try block throws
AfterDefault(i, s, m, failing) ==
    LET log1 == IF IsAiResponse(m)
                THEN SendAll(sent, vscodeClients[i], Forwarded, failing)
                ELSE sent
    IN  IF DefaultReply(m) = <<>> THEN log1
        ELSE IF IsDefaultRequest(m) /\ s \in failing THEN log1
        ELSE SendMessageToClient(log1, s, DefaultReply(m)[1])

\* the replies (messages with a status) among the writes on one socket
NumReplies(q) == Cardinality({k \in 1..Len(q) : q[k].status # Undef})

\* socket.on('message') -> handleMessage(socket, message); failing: the peers
\* for which a send inside a try block throws
HandleMessageF(i, s, m, failing) ==
    /\ issuer = "chat"
    /\ readyState[s] = "OPEN"
    /\ acceptedBy[s] = i
    /\ IF m.json \in {"bad", "null"}
       THEN \* JSON.parse throws, or a property of null is read: the catch
            /\ sent' = SendMessageToClient(sent, s, ErrorResponse(Str("unknown"), "Invalid request format"))
            /\ UNCHANGED <<messageHandlers, chatPosts, handlerCalls, vscodeClients>>
       ELSE IF LookupKey(m) \in DOMAIN messageHandlers[i]
       THEN LET x == messageHandlers[i][LookupKey(m)]
            IN  /\ handlerCalls[x] < MaxInbound
                /\ handlerCalls' = [handlerCalls EXCEPT ![x] = @ + 1]
                /\ chatPosts' = [chatPosts EXCEPT ![x] = @ \o HandlerPosts(x, m)]
                /\ messageHandlers' =
                       IF HandlerMatches(x, m)
                       THEN UnregisterMessageHandler(messageHandlers, PanelServer,
                                                     ResponseKey(x))
                       ELSE messageHandlers
                /\ sent' = IF HandlerThrows(x, m)
                           THEN SendMessageToClient(sent, s, ErrorResponse(Str("unknown"), "Invalid request format"))
                           ELSE sent
                /\ UNCHANGED vscodeClients
       ELSE /\ sent' = AfterDefault(i, s, m, failing)
            /\ vscodeClients' =
                   IF IsAiResponse(m)
                   THEN [vscodeClients EXCEPT ![i] = DropFailed(@, failing)]
                   ELSE vscodeClients
            /\ UNCHANGED <<messageHandlers, chatPosts, handlerCalls>>
    /\ sent'[s] # sent[s] => NumReplies(sent[s]) < MaxReplies
    /\ UNCHANGED <<uuidCount, reqOwner, reqAction, isBrowserExtensionInstalled,
                   bemPort, pendingRequests, timeoutTimer, timeoutIn, simTimer,
                   simIn, settleCalls, readyState, issuer, browserClients,
                   bootVars>>
    /\ UNCHANGED <<acceptedBy, arrivals, idleStops, codecVars, connVars, clientVars>>

\* handleMessage when no send throws; the calls are not counted
HandleMessage(i, s, m) ==
    HandleMessageF(i, s, m, {}) /\ UNCHANGED inboundCount

\* faulty variant: the peer's readyState is not looked at
SendRequestResultAnyState(i, writeOk) ==
    /\ Len(browserClients[i]) > 0
    /\ writeOk

\* sendRequestToBrowserExtension: TRUE iff written to the first-registered
\* automation-side peer; writeOk is whether JSON.stringify and send return
SendRequestResult(i, writeOk) ==
    /\ Len(browserClients[i]) > 0
    /\ readyState[Head(browserClients[i])] = "OPEN"
    /\ writeOk

\* ChatPanelProvider.handleUserMessage, from the request's creation on
ChatHandleUserMessage(writeOk) ==
    /\ issuer = "chat"
    /\ uuidCount < MaxRequests
    /\ LET id == Uuid(uuidCount + 1)
           ok == SendRequestResult(PanelServer, writeOk)
           registered == RegisterMessageHandler(messageHandlers, PanelServer,
                                                ResponseKey(id), id)
       IN  /\ uuidCount' = uuidCount + 1
           /\ reqOwner' = [reqOwner EXCEPT ![id] = "chat"]
           /\ reqAction' = [reqAction EXCEPT ![id] = "CODE_SUGGEST"]
           /\ IF ok
              THEN /\ sent' = [sent EXCEPT ![Head(browserClients[PanelServer])] =
                                  Append(@, RequestMsg(id, "CODE_SUGGEST"))]
                   /\ messageHandlers' = registered
                   /\ chatPosts' = [chatPosts EXCEPT ![id] = <<"showTyping">>]
              ELSE /\ sent' = sent
                   /\ messageHandlers' =
                          UnregisterMessageHandler(registered, PanelServer,
                                                   ResponseKey(id))
                   /\ chatPosts' = [chatPosts EXCEPT ![id] =
                                       <<"showTyping", "hideTyping", "sendError">>]
    /\ UNCHANGED <<isBrowserExtensionInstalled, bemPort, pendingRequests,
                   timeoutTimer, timeoutIn, simTimer, simIn, settleCalls,
                   handlerCalls, readyState, issuer, browserClients,
                   vscodeClients, bootVars>>
    /\ UNCHANGED <<epochVars, codecVars, connVars, clientVars>>

\* wss.on('connection'): the first peer of an empty browserClients is the
\* automation-side peer, any other an editor-side peer
OnConnection(i, s) ==
    /\ issuer = "chat"
    /\ wss[i].open /\ wss[i].listening
    /\ readyState[s] = "CONNECTING"
    /\ \A r \in Sockets : r < s => readyState[r] # "CONNECTING"
    /\ readyState' = [readyState EXCEPT ![s] = "OPEN"]
    /\ IF Len(browserClients[i]) = 0
       THEN /\ browserClients' = [browserClients EXCEPT ![i] = SetAdd(@, s)]
            /\ UNCHANGED vscodeClients
       ELSE /\ vscodeClients' = [vscodeClients EXCEPT ![i] = SetAdd(@, s)]
            /\ UNCHANGED browserClients
    /\ UNCHANGED <<uuidCount, reqOwner, reqAction, isBrowserExtensionInstalled,
                   bemPort, pendingRequests, timeoutTimer, timeoutIn, simTimer,
                   simIn, settleCalls, chatPosts, handlerCalls, sent,
                   issuer, messageHandlers, bootVars>>
    /\ acceptedBy' = [acceptedBy EXCEPT ![s] = i]
    /\ arrivals' = [arrivals EXCEPT ![i] = Append(@, s)]
    /\ UNCHANGED <<idleStops, inboundCount, codecVars, connVars>>

\* a peer other than the background service worker connects
SocketConnect(i, s) == OnConnection(i, s) /\ UNCHANGED clientVars

\* the peer starts closing: readyState leaves OPEN before the server's
\* 'close' listener runs
SocketBeginClose(s) ==
    /\ issuer = "chat"
    /\ readyState[s] = "OPEN"
    /\ readyState' = [readyState EXCEPT ![s] = "CLOSING"]
    /\ UNCHANGED <<uuidCount, reqOwner, reqAction, isBrowserExtensionInstalled,
                   bemPort, pendingRequests, timeoutTimer, timeoutIn, simTimer,
                   simIn, settleCalls, chatPosts, handlerCalls, sent,
                   issuer, peerVars, bootVars>>
    /\ UNCHANGED <<epochVars, codecVars, connVars, clientVars>>

\* socket.on('close')
SocketClose(i, s) ==
    /\ issuer = "chat"
    /\ readyState[s] \in {"OPEN", "CLOSING"}
    /\ acceptedBy[s] = i
    /\ readyState' = [readyState EXCEPT ![s] = "CLOSED"]
    /\ browserClients' = [browserClients EXCEPT ![i] = Without(@, s)]
    /\ vscodeClients' = [vscodeClients EXCEPT ![i] = Without(@, s)]
    /\ UNCHANGED <<uuidCount, reqOwner, reqAction, isBrowserExtensionInstalled,
                   bemPort, pendingRequests, timeoutTimer, timeoutIn, simTimer,
                   simIn, settleCalls, chatPosts, handlerCalls, sent,
                   issuer, messageHandlers, bootVars>>
    /\ UNCHANGED <<epochVars, codecVars, connVars, clientVars>>

\* socket.on('error'): the socket is then closed by ws, 'close' follows
SocketError(i, s) ==
    /\ issuer = "chat"
    /\ readyState[s] \in {"OPEN", "CLOSING"}
    /\ acceptedBy[s] = i
    /\ readyState' = [readyState EXCEPT ![s] = "CLOSING"]
    /\ browserClients' = [browserClients EXCEPT ![i] = Without(@, s)]
    /\ vscodeClients' = [vscodeClients EXCEPT ![i] = Without(@, s)]
    /\ UNCHANGED <<uuidCount, reqOwner, reqAction, isBrowserExtensionInstalled,
                   bemPort, pendingRequests, timeoutTimer, timeoutIn, simTimer,
                   simIn, settleCalls, chatPosts, handlerCalls, sent,
                   issuer, messageHandlers, bootVars, epochVars, codecVars, connVars, clientVars>>

(***************************************************************************)
(* ParsianServer.start and stop: port probing, the lock file, the bind.    *)
(* start() is asynchronous: each await is a point where the other instance *)
(* (another extension host sharing the lock-file path) may run; the code   *)
(* between two awaits is one step.                                         *)
(***************************************************************************)
CommonPort(k) == FirstCommonPort + (k - 1)
NumCommonPorts == (LastCommonPort - FirstCommonPort) + 1
CommonPorts == {CommonPort(k) : k \in 1..NumCommonPorts}
EphemeralPorts == {FirstEphemeralPort + (k - 1) : k \in 1..NumEphemeral}
Ports == CommonPorts \cup EphemeralPorts

NoWss == [open |-> FALSE, port |-> 0, listening |-> FALSE]
NoFile == [exists |-> FALSE, text |-> <<>>]
FileOf(text) == [exists |-> TRUE, text |-> text]

\* a listening socket (of a server, of a probe, or of another program) has
\* the port: a bind on it fails with EADDRINUSE
PortBusy(p) ==
    \/ p \in external
    \/ p \in Ports /\ held[p] # 0
    \/ \E j \in Instances : probing[j] = p

Listening(i) == wss[i].open /\ wss[i].listening

\* what the lock file is to a start() that begins now
LockKind ==
    IF ~lockFile.exists THEN "absent"
    ELSE IF Truthy(ParseInt(Trim(lockFile.text)))
            /\ PortBusy(ParseInt(Trim(lockFile.text))) THEN "live"
    ELSE "stale"

\* start() up to its first await, whoever calls it
ServerStart(i) ==
    /\ pc[i] = "idle"
    /\ startsLeft > 0
    /\ startsLeft' = startsLeft - 1
    /\ pc' = [pc EXCEPT ![i] = "find"]
    /\ probeIdx' = [probeIdx EXCEPT ![i] = 1]
    /\ findPhase' = [findPhase EXCEPT ![i] = 1]
    /\ startResult' = [startResult EXCEPT ![i] = "pending"]
    /\ lockAtStart' = [lockAtStart EXCEPT ![i] = LockKind]
    /\ UNCHANGED <<port, wss, probing, lockPort, held, lockFile, lockWriter,
                   external, corrVars, peerVars>>
    /\ UNCHANGED <<epochVars, codecVars, clientVars>>

StartCall(i) == ServerStart(i) /\ UNCHANGED connVars

\* faulty variant: the first candidate is taken without a probe
FindProbeBlind(i) ==
    /\ pc[i] = "find"
    /\ probing' = [probing EXCEPT ![i] = CommonPort(probeIdx[i])]
    /\ pc' = [pc EXCEPT ![i] = "findHold"]
    /\ UNCHANGED <<port, wss, probeIdx, lockPort, findPhase, startsLeft, held,
                   lockFile, lockWriter, lockAtStart, startResult, external,
                   corrVars, peerVars>>
    /\ UNCHANGED <<epochVars, codecVars, connVars, clientVars>>

\* findFreePort, one isPortFree(port) of the loop: the probe's listen
FindProbe(i) ==
    /\ pc[i] = "find"
    /\ LET p == CommonPort(probeIdx[i])
       IN  IF PortBusy(p)
           THEN /\ IF probeIdx[i] < NumCommonPorts
                   THEN /\ probeIdx' = [probeIdx EXCEPT ![i] = @ + 1]
                        /\ UNCHANGED pc
                   ELSE /\ pc' = [pc EXCEPT ![i] = "findEph"]
                        /\ UNCHANGED probeIdx
                /\ UNCHANGED probing
           ELSE /\ probing' = [probing EXCEPT ![i] = p]
                /\ pc' = [pc EXCEPT ![i] = "findHold"]
                /\ UNCHANGED probeIdx
    /\ UNCHANGED <<port, wss, lockPort, findPhase, startsLeft, held, lockFile,
                   lockWriter, lockAtStart, startResult, external, corrVars,
                   peerVars>>
    /\ UNCHANGED <<epochVars, codecVars, connVars, clientVars>>

\* findFreePort, the fallback: listen(0) gets a port of the system's choice
FindEphemeral(i) ==
    /\ pc[i] = "findEph"
    /\ IF \E p \in EphemeralPorts : ~PortBusy(p)
       THEN /\ \E p \in EphemeralPorts :
                  /\ ~PortBusy(p)
                  /\ probing' = [probing EXCEPT ![i] = p]
            /\ pc' = [pc EXCEPT ![i] = "findHold"]
            /\ UNCHANGED startResult
       ELSE /\ pc' = [pc EXCEPT ![i] = "idle"]
            /\ startResult' = [startResult EXCEPT ![i] = "rejected"]
            /\ UNCHANGED probing
    /\ UNCHANGED <<port, wss, probeIdx, lockPort, findPhase, startsLeft, held,
                   lockFile, lockWriter, lockAtStart, external, corrVars,
                   peerVars>>
    /\ UNCHANGED <<epochVars, codecVars, connVars, clientVars>>

\* the probe's close callback: findFreePort returns, this.port is assigned
FindProbeDone(i) ==
    /\ pc[i] = "findHold"
    /\ port' = [port EXCEPT ![i] = probing[i]]
    /\ probing' = [probing EXCEPT ![i] = 0]
    /\ pc' = [pc EXCEPT ![i] = IF findPhase[i] = 1 THEN "lock" ELSE "create"]
    /\ UNCHANGED <<wss, probeIdx, lockPort, findPhase, startsLeft, held,
                   lockFile, lockWriter, lockAtStart, startResult, external,
                   corrVars, peerVars>>
    /\ UNCHANGED <<epochVars, codecVars, connVars, clientVars>>

\* existsSync, readFileSync, parseInt of the lock file
LockCheck(i) ==
    /\ pc[i] = "lock"
    /\ IF ~lockFile.exists
       THEN /\ pc' = [pc EXCEPT ![i] = "create"]
            /\ UNCHANGED <<lockPort, lockFile, lockWriter>>
       ELSE LET lp == ParseInt(Trim(lockFile.text))
            IN  IF Truthy(lp)
                THEN /\ lockPort' = [lockPort EXCEPT ![i] = lp]
                     /\ pc' = [pc EXCEPT ![i] = "lockProbe"]
                     /\ UNCHANGED <<lockFile, lockWriter>>
                ELSE /\ lockFile' = NoFile
                     /\ lockWriter' = 0
                     /\ pc' = [pc EXCEPT ![i] = "create"]
                     /\ UNCHANGED lockPort
    /\ UNCHANGED <<port, wss, probeIdx, probing, findPhase, startsLeft, held,
                   lockAtStart, startResult, external, corrVars, peerVars>>
    /\ UNCHANGED <<epochVars, codecVars, connVars, clientVars>>

\* isPortFree(lockPort): the probe's listen
LockProbe(i) ==
    /\ pc[i] = "lockProbe"
    /\ IF PortBusy(lockPort[i])
       THEN /\ IF lockPort[i] = port[i]
               THEN /\ pc' = [pc EXCEPT ![i] = "find"]
                    /\ probeIdx' = [probeIdx EXCEPT ![i] = 1]
                    /\ findPhase' = [findPhase EXCEPT ![i] = 2]
               ELSE /\ pc' = [pc EXCEPT ![i] = "create"]
                    /\ UNCHANGED <<probeIdx, findPhase>>
            /\ UNCHANGED probing
       ELSE /\ probing' = [probing EXCEPT ![i] = lockPort[i]]
            /\ pc' = [pc EXCEPT ![i] = "lockProbeHold"]
            /\ UNCHANGED <<probeIdx, findPhase>>
    /\ UNCHANGED <<port, wss, lockPort, startsLeft, held, lockFile, lockWriter,
                   lockAtStart, startResult, external, corrVars, peerVars>>
    /\ UNCHANGED <<epochVars, codecVars, connVars, clientVars>>

\* faulty variant: the stale lock is left in place
LockProbeDoneKept(i) ==
    /\ pc[i] = "lockProbeHold"
    /\ probing' = [probing EXCEPT ![i] = 0]
    /\ pc' = [pc EXCEPT ![i] = "create"]
    /\ UNCHANGED <<port, wss, probeIdx, lockPort, findPhase, startsLeft, held,
                   lockFile, lockWriter, lockAtStart, startResult, external,
                   corrVars, peerVars>>
    /\ UNCHANGED <<epochVars, codecVars, connVars, clientVars>>

\* isPortFree(lockPort) gave true: the stale lock is unlinked; unlinkSync of
\* a file that is gone throws, in the catch too, and start() rejects
LockProbeDone(i) ==
    /\ pc[i] = "lockProbeHold"
    /\ probing' = [probing EXCEPT ![i] = 0]
    /\ IF lockFile.exists
       THEN /\ lockFile' = NoFile
            /\ lockWriter' = 0
            /\ pc' = [pc EXCEPT ![i] = "create"]
            /\ UNCHANGED startResult
       ELSE /\ pc' = [pc EXCEPT ![i] = "idle"]
            /\ startResult' = [startResult EXCEPT ![i] = "rejected"]
            /\ UNCHANGED <<lockFile, lockWriter>>
    /\ UNCHANGED <<port, wss, probeIdx, lockPort, findPhase, startsLeft, held,
                   lockAtStart, external, corrVars, peerVars>>
    /\ UNCHANGED <<epochVars, codecVars, connVars, clientVars>>

\* faulty variant: a line end follows the number
LockTextWithNewline(i) == NumToString(port[i]) \o <<"\n">>

\* faulty variant: the port read from the old lock file is written back
LockTextOfLockPort(i) == NumToString(lockPort[i])

\* the text start() writes to the lock file
LockText(i) == NumToString(port[i])

\* new WebSocketServer({port}) and writeFileSync: the bind is attempted at
\* once and its failure only reaches the 'error' listener
CreateServer(i) ==
    /\ pc[i] = "create"
    /\ LET bound == ~PortBusy(port[i])
       IN  /\ wss' = [wss EXCEPT ![i] =
                         [open |-> TRUE, port |-> port[i], listening |-> bound]]
           /\ held' = IF bound THEN [held EXCEPT ![port[i]] = i] ELSE held
    /\ lockFile' = FileOf(LockText(i))
    /\ lockWriter' = i
    /\ pc' = [pc EXCEPT ![i] = "idle"]
    /\ startResult' = [startResult EXCEPT ![i] = "resolved"]
    /\ UNCHANGED <<port, probeIdx, probing, lockPort, findPhase, startsLeft,
                   lockAtStart, external, corrVars, peerVars>>
    /\ arrivals' = [arrivals EXCEPT ![i] = <<>>]
    /\ UNCHANGED <<acceptedBy, idleStops, inboundCount, codecVars, connVars, clientVars>>

\* wss.close(): the listening socket is closed; the established connections
\* are terminated by ws before 8.0 and left as they are from 8.0 on; the
\* code of stop() closes none itself
WssClose(i, terminates) ==
    [s \in Sockets |->
        IF terminates /\ acceptedBy[s] = i /\ readyState[s] = "OPEN"
        THEN "CLOSING" ELSE readyState[s]]

\* faulty variant: stop() goes on without a server
RunningAlways(i) == TRUE

\* if (this.wss)
Running(i) == wss[i].open

\* stop(), whoever calls it
ServerStop(i) ==
    IF Running(i)
    THEN /\ held' = IF wss[i].listening THEN [held EXCEPT ![wss[i].port] = 0] ELSE held
         /\ wss' = [wss EXCEPT ![i] = NoWss]
         /\ browserClients' = [browserClients EXCEPT ![i] = <<>>]
         /\ vscodeClients' = [vscodeClients EXCEPT ![i] = <<>>]
         /\ messageHandlers' = [messageHandlers EXCEPT ![i] = <<>>]
         /\ IF lockFile.exists
            THEN /\ lockFile' = NoFile
                 /\ lockWriter' = 0
            ELSE UNCHANGED <<lockFile, lockWriter>>
         /\ \E terminates \in BOOLEAN : readyState' = WssClose(i, terminates)
         /\ UNCHANGED <<port, pc, probeIdx, probing, lockPort, findPhase,
                        startsLeft, lockAtStart, startResult, external,
                        uuidCount, reqOwner, reqAction,
                        isBrowserExtensionInstalled, bemPort, pendingRequests,
                        timeoutTimer, timeoutIn, simTimer, simIn, settleCalls,
                        chatPosts, handlerCalls, sent, issuer, epochVars, codecVars,
                        clientVars>>
    ELSE \* if (this.wss) is false: nothing is done
         /\ Len(idleStops) < MaxIdleStops
         /\ idleStops' = Append(idleStops, [by |-> i, lockOf |-> lockWriter])
         /\ UNCHANGED <<corrVars, peerVars, bootVars, acceptedBy, arrivals,
                        inboundCount, codecVars, clientVars>>

\* stop()
Stop(i) == ServerStop(i) /\ UNCHANGED connVars

(***************************************************************************)
(* Initial states and specifications.                                      *)
(***************************************************************************)
InitialLockFiles ==
    {NoFile,
     FileOf(NumToString(FirstCommonPort)),
     FileOf(NumToString(FirstCommonPort + 1) \o <<"\n">>),
     FileOf(<<"x">>)}

ExternalChoices ==
    {{}, CommonPorts \ {LastCommonPort}}


(***************************************************************************)
(* The background service worker of the browser extension.                 *)
(***************************************************************************)

\* a connectToWebSocket call: not running, trying the common port number idx,
\* or waiting for the timer handleDisconnection set
Off == [pc |-> "off", idx |-> 0]
Sweep(k) == [pc |-> "sweep", idx |-> k]
Wait == [pc |-> "wait", idx |-> 0]

\* the browser extension is not loaded
NoClient ==
    /\ chain = [c \in Chains |-> Off]
    /\ startupPending = FALSE

\* the servers a connection to ws://127.0.0.1:p reaches
ServerAt(p) ==
    {i \in Instances : wss[i].open /\ wss[i].listening /\ wss[i].port = p}

\* the next socket object
FreshSocket(s) ==
    /\ readyState[s] = "CONNECTING"
    /\ \A r \in Sockets : r < s => readyState[r] # "CONNECTING"

Connectable(p) == \E i \in ServerAt(p), s \in Sockets : FreshSocket(s)

\* resetConnectionStatus()
resetConnectionStatus ==
    /\ reconnectAttempts' = 0
    /\ badge' = ""

\* handleDisconnection() at the end of the call c
handleDisconnection(c) ==
    IF reconnectAttempts < MAX_RECONNECT_ATTEMPTS
    THEN /\ reconnectAttempts' = reconnectAttempts + 1
         /\ chain' = [chain EXCEPT ![c] = Wait]
         /\ UNCHANGED badge
    ELSE /\ badge' = "ERR"
         /\ chain' = [chain EXCEPT ![c] = Off]
         /\ UNCHANGED reconnectAttempts


\* the kinds of message the worker forwards: 'response_', 'rate_limit_',
\* 'captcha_'
MsgKinds == {"response", "rate_limit", "captcha"}

\* the kinds the content script reports in the runs examined
SentKinds == {"response", "rate_limit"}

\* messageId: kind + '_' + Date.now()
MessageId(kind, t) == [kind |-> kind, at |-> t]

\* faulty variant: Map.set stores nothing
PendingSetNothing(q, id, m) == q

\* Map.set on the insertion-ordered pendingMessages: a key already present
\* keeps its place and takes the new value
PendingSet(q, id, m) ==
    IF \E k \in 1..Len(q) : q[k].id = id
    THEN [k \in 1..Len(q) |-> IF q[k].id = id THEN [id |-> id, msg |-> m] ELSE q[k]]
    ELSE Append(q, [id |-> id, msg |-> m])

\* faulty variant: Map.delete removes nothing
PendingDeleteNothing(q, id) == q

\* Map.delete
PendingDelete(q, id) == SelectSeq(q, LAMBDA e : e.id # id)

\* the entries of q at the places in keep, in order
RECURSIVE KeepAt(_, _, _)
KeepAt(q, keep, k) ==
    IF k > Len(q) THEN <<>>
    ELSE (IF k \in keep THEN <<q[k]>> ELSE <<>>) \o KeepAt(q, keep, k + 1)

MsgsOf(q) == [k \in 1..Len(q) |-> q[k].msg]


\* popup 'getConnectionStatus': websocket && websocket.readyState === OPEN
isConnected == websocket # 0 /\ websocket \in clientOpen

\* the value sendWithRetry returns
SendWithRetryResult(throws) == isConnected /\ ~throws

\* sendWithRetry(message, messageId) for a message of the given kind, called
\* from chrome.runtime.onMessage; throws: websocket.send throws
sendWithRetry(kind, throws) ==
    /\ sendCalls < MaxSends
    /\ throws => isConnected /\ throwsLeft > 0
    /\ sendCalls' = sendCalls + 1
    /\ LET m == [kind |-> kind, n |-> sendCalls + 1]
           id == MessageId(kind, now)
       IN  IF ~isConnected
           THEN /\ pendingMessages' = PendingSet(pendingMessages, id, m)
                /\ closedSends' = Append(closedSends, m)
                /\ UNCHANGED <<wire, retries, throwsLeft>>
           ELSE IF ~throws
           THEN /\ wire' = [wire EXCEPT ![websocket] = Append(@, m)]
                /\ UNCHANGED <<pendingMessages, retries, throwsLeft, closedSends>>
           ELSE /\ pendingMessages' = PendingSet(pendingMessages, id, m)
                /\ retries' = retries \cup {[id |-> id, msg |-> m, attempt |-> 1]}
                /\ throwsLeft' = throwsLeft - 1
                /\ UNCHANGED <<wire, closedSends>>
    /\ UNCHANGED <<now, flushedUpTo, gaveUp>>
    /\ UNCHANGED <<websocket, reconnectAttempts, badge, clientOpen, chain,
                   manualLeft, startupPending, failedInRow,
                   corrVars, peerVars, bootVars, epochVars, codecVars, connVars>>

\* retrySendMessage(messageId, message, attempt + 1) at its start: over the
\* ceiling the entry is deleted and the retrying ends, otherwise it waits
retryNext(r) ==
    IF r.attempt + 1 > ERROR_RETRY_ATTEMPTS
    THEN /\ pendingMessages' = PendingDelete(pendingMessages, r.id)
         /\ retries' = retries \ {r}
         /\ gaveUp' = gaveUp \cup {r.msg}
    ELSE /\ retries' = (retries \ {r}) \cup {[r EXCEPT !.attempt = @ + 1]}
         /\ UNCHANGED <<pendingMessages, gaveUp>>

\* retrySendMessage after its wait of ERROR_RETRY_DELAY * attempt
retrySendMessage(r, throws) ==
    /\ r \in retries
    /\ throws => isConnected /\ throwsLeft > 0
    /\ IF ~isConnected
       THEN /\ retryNext(r)
            /\ UNCHANGED <<wire, throwsLeft>>
       ELSE IF ~throws
       THEN /\ wire' = [wire EXCEPT ![websocket] = Append(@, r.msg)]
            /\ pendingMessages' = PendingDelete(pendingMessages, r.id)
            /\ retries' = retries \ {r}
            /\ UNCHANGED <<throwsLeft, gaveUp>>
       ELSE /\ retryNext(r)
            /\ throwsLeft' = throwsLeft - 1
            /\ UNCHANGED wire
    /\ UNCHANGED <<now, sendCalls, closedSends, flushedUpTo>>
    /\ UNCHANGED <<websocket, reconnectAttempts, badge, clientOpen, chain,
                   manualLeft, startupPending, failedInRow,
                   corrVars, peerVars, bootVars, epochVars, codecVars, connVars>>

\* Date.now() moves on
ClockTick ==
    /\ now + 1 \in Times
    /\ now' = now + 1
    /\ UNCHANGED <<pendingMessages, retries, wire, sendCalls, throwsLeft,
                   closedSends, flushedUpTo, gaveUp>>
    /\ UNCHANGED <<websocket, reconnectAttempts, badge, clientOpen, chain,
                   manualLeft, startupPending, failedInRow,
                   corrVars, peerVars, bootVars, epochVars, codecVars, connVars>>

\* sendPendingMessages() in onopen of socket s, which websocket now refers
\* to: every entry is sent in Map order and deleted; an entry whose send
\* throws is left in the Map
sendPendingMessages(s) ==
    \E failing \in SUBSET (1..Len(pendingMessages)) :
        /\ Cardinality(failing) <= throwsLeft
        /\ throwsLeft' = throwsLeft - Cardinality(failing)
        /\ wire' = [wire EXCEPT ![s] =
               @ \o MsgsOf(KeepAt(pendingMessages,
                                  (1..Len(pendingMessages)) \ failing, 1))]
        /\ pendingMessages' = KeepAt(pendingMessages, failing, 1)
        /\ flushedUpTo' = Len(closedSends)
        /\ UNCHANGED <<retries, now, sendCalls, closedSends, gaveUp>>

\* connectToWebSocket(), one turn of its loop: new WebSocket on the next
\* common port; onopen ends the call, an error or the 5000 ms timeout closes
\* the socket and goes on to the next port, and to handleDisconnection after
\* the last
connectToWebSocket(c) ==
    /\ chain[c].pc = "sweep"
    /\ LET p == FirstCommonPort + chain[c].idx
       IN  IF Connectable(p)
           THEN /\ \E i \in ServerAt(p), s \in Sockets :
                       /\ OnConnection(i, s)
                       /\ websocket' = s
                       /\ clientOpen' = clientOpen \cup {s}
                       /\ sendPendingMessages(s)
                /\ resetConnectionStatus
                /\ chain' = [chain EXCEPT ![c] = Off]
                /\ failedInRow' = 0
                /\ UNCHANGED <<manualLeft, startupPending>>
           ELSE /\ websocket' = 0
                /\ IF p < LastCommonPort
                   THEN /\ chain' = [chain EXCEPT ![c] = Sweep(chain[c].idx + 1)]
                        /\ UNCHANGED <<reconnectAttempts, badge, failedInRow>>
                   ELSE /\ handleDisconnection(c)
                        /\ failedInRow' = failedInRow + 1
                /\ UNCHANGED <<clientOpen, manualLeft, startupPending,
                               queueVars, corrVars, peerVars, bootVars,
                               epochVars, codecVars, connVars>>

\* the timer of handleDisconnection fires after RECONNECT_DELAY
ReconnectTimer(c) ==
    /\ chain[c].pc = "wait"
    /\ chain' = [chain EXCEPT ![c] = Sweep(0)]
    /\ UNCHANGED <<websocket, reconnectAttempts, badge, clientOpen, manualLeft,
                   startupPending, failedInRow, queueVars,
                   corrVars, peerVars, bootVars, epochVars, codecVars, connVars>>

\* a further call of connectToWebSocket takes the next free place
NewCall(c) ==
    /\ chain[c] = Off
    /\ \A d \in Chains : d < c => chain[d] # Off
    /\ chain' = [chain EXCEPT ![c] = Sweep(0)]

\* chrome.runtime.onMessage, case 'initiateConnection': the popup's connect
\* button
ManualConnect ==
    /\ manualLeft > 0
    /\ manualLeft' = manualLeft - 1
    /\ \E c \in Chains : NewCall(c)
    /\ UNCHANGED <<websocket, reconnectAttempts, badge, clientOpen,
                   startupPending, failedInRow, queueVars,
                   corrVars, peerVars, bootVars, epochVars, codecVars, connVars>>

\* chrome.runtime.onStartup / onInstalled
OnStartup ==
    /\ startupPending
    /\ startupPending' = FALSE
    /\ \E c \in Chains : NewCall(c)
    /\ UNCHANGED <<websocket, reconnectAttempts, badge, clientOpen,
                   manualLeft, failedInRow, queueVars,
                   corrVars, peerVars, bootVars, epochVars, codecVars, connVars>>

\* websocket.onclose of an open client socket: only logs
ClientOnClose(s) ==
    /\ s \in clientOpen
    /\ readyState[s] \in {"CLOSING", "CLOSED"}
    /\ clientOpen' = clientOpen \ {s}
    /\ UNCHANGED <<websocket, reconnectAttempts, badge, chain, manualLeft,
                   startupPending, failedInRow, queueVars,
                   corrVars, peerVars, bootVars, epochVars, codecVars, connVars>>


(***************************************************************************)
(* ProtocolManager: building, validating, serialising and parsing the two  *)
(* message shapes.  A message object is a function from its property names *)
(* to values; a JSON text is the sequence of its members, each a key and a *)
(* JSON literal, in property order.                                        *)
(***************************************************************************)
NoMessage == [kind |-> "none"]

Num(x) == [t |-> "number", v |-> x]
Bool(x) == [t |-> "boolean", v |-> x]
Fn == [t |-> "function", v |-> ""]

\* arguments a caller can pass where the signature says any: omitted, null,
\* strings, numbers, a boolean, a function, objects ({} , {content: ...},
\* the default security block)
CodecValues ==
    {Undef, Null, Str(""), Str("text"), Num("0"), Num("7"), Num("Infinity"),
     Bool("true"), Fn, Obj("empty"), Obj("text"), Obj("security")}

\* a || b
Or(a, b) == IF JsTruthy(a) THEN a ELSE b

RequestKeys == <<"id", "system_role", "action_type", "context", "user_query">>
ResponseKeys == <<"request_id", "status", "data", "security">>

\* createRequest, id being the value uuidv4() returned
createRequest(id, actionType, userQuery, context) ==
    [id |-> Str(id),
     system_role |-> Str("STRICT_JSON_ONLY_MODE"),
     action_type |-> Str(actionType),
     context |-> Or(context, Obj("empty")),
     user_query |-> Str(userQuery)]

createResponse(requestId, status, data, security) ==
    [request_id |-> Str(requestId),
     status |-> Str(status),
     data |-> Or(data, Obj("content")),
     security |-> Or(security, Obj("security"))]

\* the property names of a message object, in creation order
KeysOf(o) == IF "id" \in DOMAIN o THEN RequestKeys ELSE ResponseKeys

\* o.k, undefined when the object has no such property
Get(o, k) == IF k \in DOMAIN o THEN o[k] ELSE Undef

\* a value that is not an object with properties of its own: a primitive,
\* null, undefined, an array
IsTagged(x) == DOMAIN x = {"t", "v"}

\* typeof x
JsType(x) == IF IsTagged(x) THEN TypeOf(x) ELSE "object"

\* JSON.stringify of a property value: a non-finite number is written as
\* null; undefined and functions are not written at all (see MembersOf)
Literal(val) ==
    CASE val.t = "string" -> [lit |-> "string", v |-> val.v]
      [] val.t = "number" ->
             IF val.v \in {"NaN", "Infinity"} THEN [lit |-> "null", v |-> ""]
             ELSE [lit |-> "number", v |-> val.v]
      [] val.t = "boolean" -> [lit |-> val.v, v |-> ""]
      [] val.t = "null" -> [lit |-> "null", v |-> ""]
      [] OTHER -> [lit |-> val.t, v |-> val.v]

RECURSIVE MembersOf(_, _)
MembersOf(o, keys) ==
    IF keys = <<>> THEN <<>>
    ELSE (IF Get(o, Head(keys)).t \in {"undefined", "function"} THEN <<>>
          ELSE <<[key |-> Head(keys), text |-> Literal(o[Head(keys)])]>>)
         \o MembersOf(o, Tail(keys))

\* a JSON text: of an object (its members), or one of the other texts
\* JSON.parse is given -- not JSON at all, null, a number, an array
ObjectText(members) == [json |-> "object", members |-> members]
NotJsonText == [json |-> "bad", members |-> <<>>]
NullText == [json |-> "null", members |-> <<>>]
NumberText == [json |-> "number", members |-> <<>>]
ArrayText == [json |-> "array", members |-> <<>>]

\* stringifyMessage: JSON.stringify(message)
stringifyMessage(o) == ObjectText(MembersOf(o, KeysOf(o)))

\* JSON.parse of a literal
ValueOf(l) ==
    CASE l.lit = "string" -> Str(l.v)
      [] l.lit = "number" -> Num(l.v)
      [] l.lit \in {"true", "false"} -> Bool(l.lit)
      [] l.lit = "null" -> Null
      [] OTHER -> [t |-> l.lit, v |-> l.v]

\* JSON.parse of a text that is JSON
JsonParse(text) ==
    CASE text.json = "object" ->
             [k \in {text.members[n].key : n \in 1..Len(text.members)} |->
                 ValueOf(text.members[CHOOSE n \in 1..Len(text.members) :
                                          text.members[n].key = k].text)]
      [] text.json = "null" -> Null
      [] text.json = "number" -> Num("7")
      [] OTHER -> Arr1("")

\* typeof null is 'object', so both validators go on to read a property of
\* null, which throws a TypeError
ValidatorThrows(x) == x = Null

validateRequest(x) ==
    /\ JsType(x) = "object"
    /\ TypeOf(Get(x, "id")) = "string"
    /\ StrictEq(Get(x, "system_role"), "STRICT_JSON_ONLY_MODE")
    /\ \E a \in ActionTypes : StrictEq(Get(x, "action_type"), a)
    /\ TypeOf(Get(x, "user_query")) = "string"

validateResponse(x) ==
    /\ JsType(x) = "object"
    /\ TypeOf(Get(x, "request_id")) = "string"
    /\ \E st \in {"success", "error"} : StrictEq(Get(x, "status"), st)
    /\ TypeOf(Get(x, "data")) = "object"

\* an exception on its way out of a function
Thrown == [t |-> "thrown", v |-> ""]

\* the try block of parseMessage: JSON.parse throws on text that is not
\* JSON, the validators throw on null
ParseTry(text) ==
    IF text.json = "bad" THEN Thrown
    ELSE LET parsed == JsonParse(text)
         IN  IF ValidatorThrows(parsed) THEN Thrown
             ELSE IF validateRequest(parsed) \/ validateResponse(parsed) THEN parsed
             ELSE Null

\* faulty variant: no catch, the exception leaves parseMessage
CaughtNothing(r) == r

\* the catch block of parseMessage: log, return null
Caught(r) == IF r = Thrown THEN Null ELSE r

\* parseMessage: the parsed object if it validates as either shape, else null
parseMessage(text) == Caught(ParseTry(text))

\* o without its property k; o with property k set to v
Drop(o, k) == [x \in DOMAIN o \ {k} |-> o[x]]
With(o, k, v) == [x \in DOMAIN o \cup {k} |-> IF x = k THEN v ELSE o[x]]

\* values handed to the validators: a Request and a Response as built, each
\* with one field missing, of another type or out of range, with an extra
\* field, and values that are no objects
SampleRequest == createRequest(Uuid(1), "EXPLAIN", "q", Obj("empty"))
SampleResponse == createResponse(Uuid(1), "success", Obj("content"), Obj("security"))

RequestCandidates ==
    {SampleRequest, With(SampleRequest, "extra", Str("x"))}
        \cup {Drop(SampleRequest, k) : k \in DOMAIN SampleRequest}
        \cup {With(SampleRequest, "id", Num("7")),
              With(SampleRequest, "system_role", Str("OTHER")),
              With(SampleRequest, "action_type", Str("BOGUS")),
              With(SampleRequest, "context", Str("text")),
              With(SampleRequest, "context", Null),
              With(SampleRequest, "user_query", Null)}

ResponseCandidates ==
    {SampleResponse, With(SampleResponse, "extra", Str("x")),
     With(SampleResponse, "status", Str("error"))}
        \cup {Drop(SampleResponse, k) : k \in DOMAIN SampleResponse}
        \cup {With(SampleResponse, "request_id", Num("7")),
              With(SampleResponse, "status", Str("bogus")),
              With(SampleResponse, "data", Null),
              With(SampleResponse, "data", Str("text")),
              With(SampleResponse, "data", Obj("empty")),
              With(SampleResponse, "data", Arr1("")),
              With(SampleResponse, "security", Str("text")),
              With(SampleResponse, "security", Obj("empty"))}

CodecCandidates ==
    RequestCandidates \cup ResponseCandidates
        \cup {Null, Undef, Num("7"), Str("text"), Arr1("")}

AllKeys == RequestKeys \o ResponseKeys \o <<"extra">>

\* texts handed to parseMessage
CodecTexts ==
    {NotJsonText, NullText, NumberText, ArrayText}
        \cup {ObjectText(MembersOf(o, AllKeys)) :
                 o \in RequestCandidates \cup ResponseCandidates}

\* what a validator call does: "true", "false", or "throws"
Verdict(x, accepts) ==
    IF ValidatorThrows(x) THEN "throws" ELSE IF accepts THEN "true" ELSE "false"

NoCall == [op |-> "none", arg |-> NoMessage, result |-> NoMessage]

\* after construction of the objects
InitObjects ==
    /\ uuidCount = 0
    /\ reqOwner = [id \in Ids |-> "none"]
    /\ reqAction = [id \in Ids |-> "none"]
    /\ bemPort = <<>>
    /\ pendingRequests = {}
    /\ timeoutTimer = [id \in Ids |-> "none"]
    /\ timeoutIn = [id \in Ids |-> 0]
    /\ simTimer = [id \in Ids |-> "none"]
    /\ simIn = [id \in Ids |-> 0]
    /\ settleCalls = [id \in Ids |-> <<>>]
    /\ chatPosts = [id \in Ids |-> <<>>]
    /\ handlerCalls = [id \in Ids |-> 0]
    /\ browserClients = [i \in Instances |-> <<>>]
    /\ vscodeClients = [i \in Instances |-> <<>>]
    /\ messageHandlers = [i \in Instances |-> <<>>]
    /\ readyState = [s \in Sockets |-> "CONNECTING"]
    /\ sent = [s \in Sockets |-> <<>>]
    /\ pc = [i \in Instances |-> "idle"]
    /\ probeIdx = [i \in Instances |-> 1]
    /\ probing = [i \in Instances |-> 0]
    /\ lockPort = [i \in Instances |-> 0]
    /\ findPhase = [i \in Instances |-> 1]
    /\ lockAtStart = [i \in Instances |-> "none"]
    /\ acceptedBy = [s \in Sockets |-> 0]
    /\ arrivals = [i \in Instances |-> <<>>]
    /\ idleStops = <<>>
    /\ inboundCount = 0
    /\ built = NoMessage
    /\ roundTrip = NoMessage
    /\ call = NoCall
    /\ managerServer = 0
    /\ managerConnected = FALSE
    /\ statusBarItem = TRUE
    /\ statusTimers = 0
    /\ startServerResult = [i \in Instances |-> "none"]
    /\ websocket = 0
    /\ reconnectAttempts = 0
    /\ badge = ""
    /\ clientOpen = {}
    /\ manualLeft = MaxManual
    /\ failedInRow = 0
    /\ pendingMessages = <<>>
    /\ retries = {}
    /\ now = 0
    /\ wire = [s \in Sockets |-> <<>>]
    /\ sendCalls = 0
    /\ throwsLeft = MaxThrows
    /\ closedSends = <<>>
    /\ flushedUpTo = 0
    /\ gaveUp = {}

\* no server started yet
LockInit ==
    /\ InitObjects
    /\ NoClient
    /\ port = [i \in Instances |-> 0]
    /\ wss = [i \in Instances |-> NoWss]
    /\ startsLeft = MaxStarts
    /\ startResult = [i \in Instances |-> "none"]
    /\ held = [p \in Ports |-> 0]
    /\ external \in ExternalChoices
    /\ lockFile \in InitialLockFiles
    /\ lockWriter = 0
    /\ isBrowserExtensionInstalled = lockFile.exists
    /\ issuer = "none"

BootStep(i) ==
    \/ StartCall(i)
    \/ FindProbe(i)
    \/ FindEphemeral(i)
    \/ FindProbeDone(i)
    \/ LockCheck(i)
    \/ LockProbe(i)
    \/ LockProbeDone(i)
    \/ CreateServer(i)
    \/ Stop(i)

LockNext == \E i \in Instances : BootStep(i)

LockSpec == LockInit /\ [][LockNext]_vars

\* one instance at a time: nothing else runs while a start() is under way
SeqLockNext ==
    \E i \in Instances :
        /\ \A j \in Instances \ {i} : pc[j] = "idle"
        /\ BootStep(i)

SeqLockSpec == LockInit /\ [][SeqLockNext]_vars

\* the chat panel is opened on a started server (extension.ts: openChat needs
\* getServer()); the lock file is as the server wrote it, or has since been
\* removed by another instance's stop()
Init ==
    /\ InitObjects
    /\ NoClient
    /\ port = [i \in Instances |-> IF i = PanelServer THEN FirstCommonPort ELSE 0]
    /\ wss = [i \in Instances |->
                 IF i = PanelServer
                 THEN [open |-> TRUE, port |-> FirstCommonPort, listening |-> TRUE]
                 ELSE NoWss]
    /\ startsLeft = MaxStarts - 1
    /\ startResult = [i \in Instances |-> IF i = PanelServer THEN "resolved" ELSE "none"]
    /\ held = [p \in Ports |-> IF p = FirstCommonPort THEN PanelServer ELSE 0]
    /\ external = {}
    /\ issuer \in {"bem", "chat"}
    /\ \/ lockFile = FileOf(NumToString(FirstCommonPort)) /\ lockWriter = PanelServer
       \/ issuer = "bem" /\ lockFile = NoFile /\ lockWriter = 0
    /\ isBrowserExtensionInstalled = (issuer = "bem" /\ lockFile.exists)

BemInbound ==
    LET rids == {Uuid(n) : n \in 1..uuidCount} \cup {UnknownId}
    IN  {ResponseMsg(Str(x), st, Obj("text")) : x \in rids, st \in {"success", "error"}}
            \cup {ResponseMsg(Arr1(x), "success", Obj("text")) : x \in rids}
            \cup {TaggedRequestMsg("r", "EXPLAIN", Str(x)) : x \in rids}
            \cup {RequestMsg("r", "EXPLAIN"), BadJson}

ServerInbound ==
    LET rids == {Uuid(n) : n \in 1..uuidCount} \cup {UnknownId}
    IN  {ResponseMsg(Str(x), "success", d) : x \in rids, d \in {Obj("code"), Undef}}
            \cup {ResponseMsg(Str(x), "error", Undef) : x \in rids}
            \cup {ResponseMsg(Arr1(x), "success", Obj("text")) : x \in rids}
            \cup {TaggedRequestMsg("r", ResponseKey(x), Str(y)) : x \in rids, y \in rids}

Next ==
    \/ \E t \in Timeouts : BemSendRequest("CODE_SUGGEST", t)
    \/ \E id \in Ids : BemTimeoutFires(id)
    \/ \E id \in Ids : BemSimulateResponse(id)
    \/ \E m \in BemInbound : BemHandleIncomingMessage(m)
    \/ BemDispose
    \/ BemInstallBrowserExtension
    \/ Tick
    \/ \E w \in BOOLEAN : ChatHandleUserMessage(w)
    \/ \E s \in Sockets, m \in ServerInbound : HandleMessage(PanelServer, s, m)
    \/ \E s \in PanelSockets : SocketConnect(PanelServer, s)
    \/ \E s \in Sockets : SocketBeginClose(s)
    \/ \E s \in Sockets : SocketClose(PanelServer, s)

Spec == Init /\ [][Next]_vars

\* the peers of one server over its start/stop cycles
PeerInit ==
    /\ InitObjects
    /\ NoClient
    /\ port = [i \in Instances |-> 0]
    /\ wss = [i \in Instances |-> NoWss]
    /\ startsLeft = MaxStarts
    /\ startResult = [i \in Instances |-> "none"]
    /\ held = [p \in Ports |-> 0]
    /\ external \in ExternalChoices
    /\ lockFile \in InitialLockFiles
    /\ lockWriter = 0
    /\ isBrowserExtensionInstalled = lockFile.exists
    /\ issuer = "chat"

PeerNext ==
    \/ \E s \in Sockets : SocketConnect(PanelServer, s)
    \/ \E s \in Sockets : SocketBeginClose(s)
    \/ \E s \in Sockets : SocketClose(PanelServer, s)
    \/ \E s \in Sockets : SocketError(PanelServer, s)
    \/ BootStep(PanelServer)

PeerSpec == PeerInit /\ [][PeerNext]_vars

\* the background service worker is loaded while no server runs; one editor
\* instance starts and stops its server
ClientInit ==
    /\ InitObjects
    /\ chain = [c \in Chains |-> IF c = 1 THEN Sweep(0) ELSE Off]
    /\ startupPending = TRUE
    /\ port = [i \in Instances |-> 0]
    /\ wss = [i \in Instances |-> NoWss]
    /\ startsLeft = MaxStarts
    /\ startResult = [i \in Instances |-> "none"]
    /\ held = [p \in Ports |-> 0]
    /\ external = {}
    /\ lockFile = NoFile
    /\ lockWriter = 0
    /\ isBrowserExtensionInstalled = FALSE
    /\ issuer = "chat"

ClientNext ==
    \/ \E c \in Chains : connectToWebSocket(c)
    \/ \E c \in Chains : ReconnectTimer(c)
    \/ ManualConnect
    \/ OnStartup
    \/ \E s \in Sockets : ClientOnClose(s)
    \/ \E s \in Sockets : SocketBeginClose(s)
    \/ \E s \in Sockets : SocketClose(PanelServer, s)
    \/ StartCall(PanelServer)
    \/ FindProbe(PanelServer)
    \/ FindProbeDone(PanelServer)
    \/ LockCheck(PanelServer)
    \/ CreateServer(PanelServer)
    \/ Stop(PanelServer)

ClientSpec == ClientInit /\ [][ClientNext]_vars

\* the background service worker is loaded while the server listens on the
\* first common port; the popup's connect button is the way back after a lost
\* connection
QueueInit ==
    /\ InitObjects
    /\ chain = [c \in Chains |-> IF c = 1 THEN Sweep(0) ELSE Off]
    /\ startupPending = FALSE
    /\ port = [i \in Instances |-> IF i = PanelServer THEN FirstCommonPort ELSE 0]
    /\ wss = [i \in Instances |->
                 IF i = PanelServer
                 THEN [open |-> TRUE, port |-> FirstCommonPort, listening |-> TRUE]
                 ELSE NoWss]
    /\ startsLeft = MaxStarts - 1
    /\ startResult = [i \in Instances |-> IF i = PanelServer THEN "resolved" ELSE "none"]
    /\ held = [p \in Ports |-> IF p = FirstCommonPort THEN PanelServer ELSE 0]
    /\ external = {}
    /\ lockFile = FileOf(NumToString(FirstCommonPort))
    /\ lockWriter = PanelServer
    /\ isBrowserExtensionInstalled = FALSE
    /\ issuer = "chat"

QueueNext ==
    \/ \E kind \in SentKinds, throws \in BOOLEAN : sendWithRetry(kind, throws)
    \/ \E r \in retries, throws \in BOOLEAN : retrySendMessage(r, throws)
    \/ ClockTick
    \/ \E c \in Chains : connectToWebSocket(c)
    \/ (\A c \in Chains : chain[c] = Off) /\ ManualConnect
    \/ \E s \in Sockets : ClientOnClose(s)
    \/ \E s \in Sockets : SocketBeginClose(s)

QueueSpec == QueueInit /\ [][QueueNext]_vars

\* the server's dispatch of what its peers send while no handler is registered
DispatchInit == Init /\ issuer = "chat"

\* the number of messages written to the sockets
RECURSIVE TotalLogUpTo(_, _)
TotalLogUpTo(log, s) ==
    IF s = 0 THEN 0
    ELSE (IF s \in Sockets THEN Len(log[s]) ELSE 0) + TotalLogUpTo(log, s - 1)

TotalLog(log) == TotalLogUpTo(log, Cardinality(Sockets))

\* payloads of every shape handleMessage tells apart
DispatchInbound ==
    {BadJson, NullJson, PrimitiveJson, NoticeMsg("ai_response"),
         NoticeMsg("rate_limit_detected"), NoticeMsg("bogus"),
         Wire("object", Undef, Undef, Undef, Undef, Undef, Undef, Undef, Undef),
         RequestMsg("r", "EXPLAIN"), RequestMsg("r", "BOGUS"), RequestMsg("r", ""),
         ResponseMsg(Str(UnknownId), "success", Obj("text"))}

\* the sets of peers whose send can throw inside one handleMessage call: the
\* sends made inside a try block are those of broadcastMessage, to the open
\* editor-side peers, and of sendMessageWithErrorHandling, to the sender
Throwers(i, s, m) ==
    IF IsAiResponse(m)
    THEN SUBSET {t \in Range(vscodeClients[i]) : readyState[t] = "OPEN"}
    ELSE IF IsDefaultRequest(m) THEN SUBSET {s}
    ELSE {{}}

DispatchNext ==
    \/ \E s \in Sockets : SocketConnect(PanelServer, s)
    \/ \E s \in Sockets : SocketBeginClose(s)
    \/ \E s \in Sockets : SocketClose(PanelServer, s)
    \/ \E s \in Sockets, m \in DispatchInbound :
         \E failing \in Throwers(PanelServer, s, m) :
           /\ HandleMessageF(PanelServer, s, m, failing)
           /\ TotalLog(sent') <= MaxLog
           /\ inboundCount' = 1 - inboundCount

DispatchSpec == DispatchInit /\ [][DispatchNext]_vars

\* malformed and unroutable payloads, and the Responses on which the chat
\* panel's handler for an issued request throws (status success, no data)
CatchInbound ==
    {BadJson, NullJson, PrimitiveJson, NoticeMsg("bogus"),
     Wire("object", Undef, Undef, Undef, Undef, Undef, Undef, Undef, Undef),
     ResponseMsg(Str(UnknownId), "success", Obj("text"))}
        \cup {ResponseMsg(Str(Uuid(n)), "success", Undef) : n \in 1..uuidCount}

\* one server, its peers, the chat panel's requests and bad input
CatchNext ==
    \/ \E s \in Sockets : SocketConnect(PanelServer, s)
    \/ \E w \in BOOLEAN : ChatHandleUserMessage(w) /\ TotalLog(sent') <= MaxLog
    \/ \E s \in Sockets, m \in CatchInbound :
           /\ HandleMessageF(PanelServer, s, m, {})
           /\ TotalLog(sent') <= MaxLog
           /\ inboundCount' = 1 - inboundCount

CatchSpec == DispatchInit /\ [][CatchNext]_vars

\* the background service worker is loaded while other programs hold every
\* common port, so that a server that starts gets a port of the system's
\* choice
EphemeralInit ==
    /\ InitObjects
    /\ chain = [c \in Chains |-> IF c = 1 THEN Sweep(0) ELSE Off]
    /\ startupPending = TRUE
    /\ port = [i \in Instances |-> 0]
    /\ wss = [i \in Instances |-> NoWss]
    /\ startsLeft = MaxStarts
    /\ startResult = [i \in Instances |-> "none"]
    /\ held = [p \in Ports |-> 0]
    /\ external = CommonPorts
    /\ lockFile = NoFile
    /\ lockWriter = 0
    /\ isBrowserExtensionInstalled = FALSE
    /\ issuer = "chat"

EphemeralNext ==
    \/ \E c \in Chains : connectToWebSocket(c)
    \/ \E c \in Chains : ReconnectTimer(c)
    \/ ManualConnect
    \/ OnStartup
    \/ StartCall(PanelServer)
    \/ FindProbe(PanelServer)
    \/ FindEphemeral(PanelServer)
    \/ FindProbeDone(PanelServer)
    \/ LockCheck(PanelServer)
    \/ CreateServer(PanelServer)
    \/ Stop(PanelServer)

EphemeralSpec == EphemeralInit /\ [][EphemeralNext]_vars

\* ConnectionManager.startServer up to its await: with this.server null a
\* new ParsianServer is created and its start() begun; with a server there
\* the call only warns
ManagerStartServer ==
    /\ managerServer = 0
    /\ \E i \in Instances :
         /\ startServerResult[i] = "none"
         /\ \A j \in Instances : j < i => startServerResult[j] # "none"
         /\ managerServer' = i
         /\ startServerResult' = [startServerResult EXCEPT ![i] = "pending"]
         /\ ServerStart(i)
    /\ UNCHANGED <<managerConnected, statusBarItem, statusTimers>>

\* startServer after the await: once start() has resolved the 2 s status
\* timer is set, then this.server.getPort() is read, which throws into the
\* catch when this.server is null by now; a rejected start() goes to the catch
ManagerStartResumed(i) ==
    /\ startServerResult[i] = "pending"
    /\ startResult[i] \in {"resolved", "rejected"}
    /\ IF startResult[i] = "resolved"
       THEN /\ statusTimers' = statusTimers + 1
            /\ startServerResult' =
                   [startServerResult EXCEPT
                       ![i] = IF managerServer = 0 THEN "false" ELSE "true"]
       ELSE /\ statusTimers' = statusTimers
            /\ startServerResult' = [startServerResult EXCEPT ![i] = "false"]
    /\ UNCHANGED <<managerServer, managerConnected, statusBarItem>>
    /\ UNCHANGED <<corrVars, peerVars, bootVars, epochVars, codecVars, clientVars>>

\* the timer callback: simulateConnectionStatus(true)
ManagerStatusTimer ==
    /\ statusTimers > 0
    /\ statusTimers' = statusTimers - 1
    /\ managerConnected' = TRUE
    /\ UNCHANGED <<managerServer, statusBarItem, startServerResult>>
    /\ UNCHANGED <<corrVars, peerVars, bootVars, epochVars, codecVars, clientVars>>

\* stopServer(), and dispose(), which calls it and then disposes of the
\* status bar item
ManagerStopServer(dispose) ==
    /\ managerServer # 0 \/ (dispose /\ statusBarItem)
    /\ IF managerServer # 0
       THEN /\ ServerStop(managerServer)
            /\ managerServer' = 0
            /\ managerConnected' = FALSE
       ELSE UNCHANGED <<corrVars, peerVars, bootVars, epochVars, codecVars,
                        clientVars, managerServer, managerConnected>>
    /\ statusBarItem' = IF dispose THEN FALSE ELSE statusBarItem
    /\ UNCHANGED <<statusTimers, startServerResult>>

isConnectedToBrowser == managerConnected
getServer == managerServer

\* the ConnectionManager over the servers it creates
ManagerNext ==
    \/ ManagerStartServer
    \/ \E i \in Instances : ManagerStartResumed(i)
    \/ ManagerStatusTimer
    \/ \E dispose \in BOOLEAN : ManagerStopServer(dispose)
    \/ \E i \in Instances : FindProbe(i)
    \/ \E i \in Instances : FindEphemeral(i)
    \/ \E i \in Instances : FindProbeDone(i)
    \/ \E i \in Instances : LockCheck(i)
    \/ \E i \in Instances : LockProbe(i)
    \/ \E i \in Instances : LockProbeDone(i)
    \/ \E i \in Instances : CreateServer(i)

ManagerSpec == LockInit /\ [][ManagerNext]_vars

\* what a peer can send while the chat panel's handlers are registered: a
\* Response, a Request that also carries a request_id, a message whose
\* action_type is the text of a handler key, and a plain Request
OrderInbound ==
    LET rids == {Uuid(n) : n \in 1..uuidCount}
    IN  {ResponseMsg(Str(x), "success", Obj("text")) : x \in rids}
            \cup {TaggedRequestMsg("r", "EXPLAIN", Str(x)) : x \in rids}
            \cup {TaggedRequestMsg("r", ResponseKey(x), Undef) : x \in rids}
            \cup {ResponseMsg(Arr1(x), "success", Obj("text")) : x \in rids}
            \cup {RequestMsg("r", "EXPLAIN")}

\* one server, its peers, the chat panel's requests and what the peers answer
OrderNext ==
    \/ \E s \in Sockets : SocketConnect(PanelServer, s)
    \/ \E w \in BOOLEAN : ChatHandleUserMessage(w) /\ TotalLog(sent') <= MaxLog
    \/ \E s \in Sockets, m \in OrderInbound :
         \E failing \in Throwers(PanelServer, s, m) :
           /\ HandleMessageF(PanelServer, s, m, failing)
           /\ TotalLog(sent') <= MaxLog
           /\ inboundCount' = 1 - inboundCount

OrderSpec == DispatchInit /\ [][OrderNext]_vars

\* a caller builds a Request
CodecCreateRequest(actionType, userQuery, context) ==
    /\ built' = createRequest(Uuid(1), actionType, userQuery, context)
    /\ roundTrip' = NoMessage
    /\ call' = NoCall
    /\ UNCHANGED <<corrVars, peerVars, bootVars, epochVars, connVars, clientVars>>

\* a caller builds a Response
CodecCreateResponse(requestId, status, data, security) ==
    /\ built' = createResponse(requestId, status, data, security)
    /\ roundTrip' = NoMessage
    /\ call' = NoCall
    /\ UNCHANGED <<corrVars, peerVars, bootVars, epochVars, connVars, clientVars>>

\* parseMessage(stringifyMessage(built))
CodecRoundTrip ==
    /\ built # NoMessage
    /\ roundTrip' = parseMessage(stringifyMessage(built))
    /\ UNCHANGED <<built, call, corrVars, peerVars, bootVars, epochVars, connVars,
                   clientVars>>

\* parseMessage(text) on a text from outside
CodecParse(text) ==
    /\ call' = [op |-> "parseMessage", arg |-> text, result |-> parseMessage(text)]
    /\ built' = NoMessage
    /\ roundTrip' = NoMessage
    /\ UNCHANGED <<corrVars, peerVars, bootVars, epochVars, connVars, clientVars>>

\* validateRequest(x) and validateResponse(x) on a value from outside
CodecValidate(x) ==
    /\ call' = [op |-> "validate", arg |-> x,
                result |-> [request |-> Verdict(x, validateRequest(x)),
                            response |-> Verdict(x, validateResponse(x))]]
    /\ built' = NoMessage
    /\ roundTrip' = NoMessage
    /\ UNCHANGED <<corrVars, peerVars, bootVars, epochVars, connVars, clientVars>>

\* the responseData of handleCodeSuggestion, handleExplanationRequest and
\* handleCommandRequest; requestId is request.id as it arrived
PlaceholderObject(requestId) ==
    [request_id |-> requestId, status |-> Str("success"),
     data |-> Obj("content"), security |-> Obj("security")]

\* the errorResponse of the server's sendError
SendErrorObject(requestId, message) ==
    [request_id |-> requestId, status |-> Str("error"), message |-> Str(message)]

\* the client's error replies: to a request it could not forward, and from
\* the catch of its message handler
ClientErrorReply(requestId, message) ==
    [request_id |-> requestId, status |-> Str("error"), message |-> Str(message)]
ClientCatchReply ==
    [status |-> Str("error"), message |-> Str("Invalid message format")]

EmittedKeys == <<"request_id", "status", "message", "data", "security">>

\* the Response-shaped objects the two sides write to a socket
EmittedResponses ==
    {PlaceholderObject(Str(Uuid(1))),
     SendErrorObject(Str("unknown"), "Invalid request format"),
     SendErrorObject(Str(Uuid(1)), "Unknown action type"),
     ClientErrorReply(Str(Uuid(1)), "No active tab found"),
     ClientCatchReply}

\* one side sends JSON.stringify(o), the other hands the text to parseMessage
CodecEmit(o) ==
    /\ call' = [op |-> "emit", arg |-> o,
                result |-> parseMessage(ObjectText(MembersOf(o, EmittedKeys)))]
    /\ built' = NoMessage
    /\ roundTrip' = NoMessage
    /\ UNCHANGED <<corrVars, peerVars, bootVars, epochVars, connVars, clientVars>>

CodecNext ==
    \/ \E a \in ActionTypes, q \in {"", "q"}, c \in CodecValues :
           CodecCreateRequest(a, q, c)
    \/ \E id \in {"", Uuid(1)}, st \in {"success", "error"}, d, sec \in CodecValues :
           CodecCreateResponse(id, st, d, sec)
    \/ CodecRoundTrip
    \/ \E text \in CodecTexts : CodecParse(text)
    \/ \E x \in CodecCandidates : CodecValidate(x)
    \/ \E o \in EmittedResponses : CodecEmit(o)

CodecSpec == DispatchInit /\ [][CodecNext]_vars

(***************************************************************************)
(* The fair behaviours: time passes and due timer callbacks run.  Whether  *)
(* a peer ever answers is not the program's to decide.                     *)
(***************************************************************************)
FairSpec ==
    /\ Spec
    /\ WF_vars(Tick)
    /\ \A id \in Ids : WF_vars(BemTimeoutFires(id))
    /\ \A id \in Ids : WF_vars(BemSimulateResponse(id))

(***************************************************************************)
(* Request correlation                                                     *)
(***************************************************************************)
Issued(id) == reqOwner[id] # "none"

\* how many times the chat panel's waiter for id has been resolved: each
\* resolution posts one hideTyping to the webview
ChatResolutions(id) ==
    Cardinality({k \in 1..Len(chatPosts[id]) : chatPosts[id][k] = "hideTyping"})

Resolved(id) == Len(settleCalls[id]) > 0 \/ ChatResolutions(id) > 0

HandlerRegistered(id) == ResponseKey(id) \in DOMAIN messageHandlers[PanelServer]

Outstanding(id) == id \in pendingRequests \/ HandlerRegistered(id)

\* C1: the waiter of a request is never resolved twice: the promise of
\* sendRequest has resolve/reject called at most once, and the chat panel's
\* handler reports at most one outcome, whatever the order of Responses and
\* timer callbacks.
C1_AtMostOneOutcome ==
    \A id \in Ids : Len(settleCalls[id]) <= 1 /\ ChatResolutions(id) <= 1

\* the timeout won the race and the (simulated) Response came afterwards
C1_Witness ==
    \E id \in Ids : settleCalls[id] = <<"timeout">> /\ simTimer[id] = "fired"

\* C2: every issued request eventually resolves its waiter.
C2_EventuallyResolved ==
    \A id \in Ids : Issued(id) ~> Resolved(id)

\* C3: a message with request_id X resolves only X's waiter: every other
\* request keeps its state, and when X is not outstanding nothing is
\* resolved and the pending set and the handler table stay as they are.
C3_OnlyItsOwnWaiter ==
    [][<<settleCalls, chatPosts, pendingRequests, messageHandlers>>'
          # <<settleCalls, chatPosts, pendingRequests, messageHandlers>>
       => \A m \in (IF issuer = "bem" THEN BemInbound ELSE ServerInbound) :
             (IF issuer = "bem"
              THEN BemHandleIncomingMessage(m)
              ELSE \E s \in PanelSockets : HandleMessage(PanelServer, s, m))
             => /\ \A y \in Ids :
                      ~StrictEq(m.request_id, y)
                      => /\ settleCalls'[y] = settleCalls[y]
                         /\ chatPosts'[y] = chatPosts[y]
                         /\ (y \in pendingRequests') = (y \in pendingRequests)
                         /\ HandlerRegistered(y)' = HandlerRegistered(y)
                /\ (~\E x \in Ids : StrictEq(m.request_id, x) /\ Outstanding(x))
                      => /\ settleCalls' = settleCalls
                         /\ chatPosts' = chatPosts
                         /\ pendingRequests' = pendingRequests
                         /\ messageHandlers' = messageHandlers]_vars

\* a Response resolved one chat request while another is still registered
C3_Witness ==
    \E x, y \in Ids :
        /\ x # y
        /\ handlerCalls[x] > 0 /\ ChatResolutions(x) = 1
        /\ HandlerRegistered(y) /\ ChatResolutions(y) = 0

\* C4: a handler registered under response_<id> is delivered at most one
\* inbound message: the dispatch that invokes it removes it from the table.
C4_AtMostOnceDelivery ==
    \A x \in Ids : handlerCalls[x] <= 1

\* C5: when sendRequestToBrowserExtension returns false, handleUserMessage
\* reports the failure in the same step and leaves no response_<id> handler.
C5_SendFailure ==
    [][\A w \in BOOLEAN :
          ChatHandleUserMessage(w) /\ ~SendRequestResult(PanelServer, w)
          => LET id == Uuid(uuidCount + 1)
             IN  /\ chatPosts'[id] = <<"showTyping", "hideTyping", "sendError">>
                 /\ ResponseKey(id) \notin DOMAIN messageHandlers'[PanelServer]
                 /\ sent' = sent]_vars

\* a send failed while the automation-side peer was connected and OPEN
C5_Witness ==
    \E id \in Ids :
        /\ chatPosts[id] = <<"showTyping", "hideTyping", "sendError">>
        /\ Len(browserClients[PanelServer]) > 0
        /\ readyState[Head(browserClients[PanelServer])] = "OPEN"

\* C6: a resolved request is not outstanding: its id is neither in
\* pendingRequests nor in the handler table under response_<id>.
C6_ResolvedNotOutstanding ==
    \A id \in Ids : Resolved(id) => ~Outstanding(id)

\* two requests resolved, one by a Response and one by its timeout
C6_Witness ==
    \E x, y \in Ids :
        /\ settleCalls[x] = <<"timeout">>
        /\ settleCalls[y] = <<"success">> /\ timeoutTimer[y] = "cleared"

(***************************************************************************)
(* Port and lock file                                                      *)
(***************************************************************************)
LockNames(p) == lockFile.exists /\ lockFile.text = NumToString(p)

\* C7 (as stated): a listening instance always finds the lock file present
\* and naming its port, whatever other instances sharing the path do.
C7_ListeningOwnsLock ==
    \A i \in Instances : Listening(i) => LockNames(wss[i].port)

\* C7: a listening instance finds the lock file naming its port as long as
\* no other instance has written or deleted the lock file since this
\* instance's start() wrote it.
C7_ListeningOwnsLockUntilOverwritten ==
    \A i \in Instances :
        Listening(i) /\ lockWriter = i => LockNames(wss[i].port)

\* an instance listens, its lock in place, beside another listening instance
C7_Witness ==
    \E i, j \in Instances :
        /\ i # j
        /\ Listening(i) /\ lockWriter = i /\ LockNames(wss[i].port)
        /\ Listening(j)

\* C8: the lock file is written only by an instance whose bind succeeded:
\* whenever the lock file is as instance i's start() wrote it, i's server
\* is listening on the port the file names.
C8_PublishedAfterBind ==
    \A i \in Instances :
        lockFile.exists /\ lockWriter = i
        => wss[i].open /\ wss[i].listening /\ LockNames(wss[i].port)

\* C9: a start() that begins with a stale lock file (its port free, or its
\* text no port) does not fail, has the stale file deleted by the time it
\* creates its server, binds the port it chose, and leaves the lock file
\* naming that port.
C9_StaleLockReclaimed ==
    [][\A i \in Instances :
          /\ lockAtStart'[i] = "stale" => startResult'[i] # "rejected"
          /\ CreateServer(i) /\ lockAtStart[i] = "stale"
             => /\ ~lockFile.exists
                /\ ~PortBusy(port[i])
                /\ wss'[i].listening /\ wss'[i].port = port[i]
                /\ lockFile' = FileOf(NumToString(port[i]))
                /\ startResult'[i] = "resolved"]_vars

\* a start() that found a lock file naming a free port has finished
C9_Witness ==
    \E i \in Instances :
        /\ lockAtStart[i] = "stale" /\ startResult[i] = "resolved"
        /\ Listening(i) /\ lockWriter = i
        /\ lockPort[i] = FirstCommonPort + 1

\* C10: a second instance whose start() runs while a first is listening with
\* its lock file in place reads the first's port from the lock, finds it
\* occupied, binds another port and overwrites the lock file with it.
C10_SecondInstance ==
    [][\A i, j \in Instances :
          /\ i # j
          /\ CreateServer(i)
          /\ lockAtStart[i] = "live"
          /\ Listening(j) /\ LockNames(wss[j].port)
          => /\ lockPort[i] = wss[j].port
             /\ wss'[i].listening
             /\ wss'[i].port # wss[j].port
             /\ Listening(j)'
             /\ lockFile' = FileOf(NumToString(wss'[i].port))]_vars

\* both listen on different ports and the lock file names the second's
C10_Witness ==
    \E i, j \in Instances :
        /\ i # j
        /\ lockAtStart[i] = "live" /\ lockPort[i] = wss[j].port
        /\ Listening(i) /\ Listening(j)
        /\ wss[i].port # wss[j].port
        /\ LockNames(wss[i].port)

\* C11: a start() that began with no lock file leaves a lock file whose
\* whole text is the decimal digits of the port getPort() returns.
C11_LockIsDecimalPort ==
    [][\A i \in Instances :
          CreateServer(i) /\ lockAtStart[i] = "absent"
          => /\ lockFile'.exists
             /\ lockFile'.text = NumToString(port'[i])
             /\ \A k \in 1..Len(lockFile'.text) : IsDigit(lockFile'.text[k])
             /\ ParseInt(lockFile'.text) = port'[i]]_vars

\* a start() that found no lock file has written one
C11_Witness ==
    \E i \in Instances :
        /\ lockAtStart[i] = "absent" /\ startResult[i] = "resolved"
        /\ lockWriter = i /\ LockNames(port[i])

C13_StopIdempotent ==
    [][\A i \in Instances :
          Stop(i) /\ ~wss[i].open
          => UNCHANGED <<browserClients, vscodeClients, messageHandlers, port,
                         wss, held, lockFile, lockWriter, startResult>>]_vars

\* stop() was called on a stopped server while the lock file of another,
\* listening instance was in place
C13_Witness ==
    \E i, j \in Instances, k \in 1..Len(idleStops) :
        /\ i # j
        /\ idleStops[k] = [by |-> i, lockOf |-> j]
        /\ Listening(j) /\ lockWriter = j /\ LockNames(wss[j].port)

\* C14: after stop() on a listening server every peer socket it had accepted
\* has been closed (or is closing), both peer sets and the handler table are
\* empty, and the lock file is absent.
C14_StoppedMeansClosed ==
    \A i \in Instances :
        ~wss[i].open /\ startResult[i] = "resolved" =>
            /\ \A s \in Sockets :
                   acceptedBy[s] = i => readyState[s] \in {"CLOSING", "CLOSED"}
            /\ browserClients[i] = <<>>
            /\ vscodeClients[i] = <<>>
            /\ messageHandlers[i] = <<>>
            /\ ~lockFile.exists

\* C15: a lock-file operation that fails does not make start() fail: when
\* the stale lock file start() is about to delete is already gone, the lock
\* counts as absent and start() goes on to create its server.
C15_LockErrorNotFatal ==
    [][\A i \in Instances :
          LockProbeDone(i) /\ ~lockFile.exists
          => startResult'[i] # "rejected" /\ pc'[i] = "create"]_vars

\* C16: within one listening epoch only the first connection to arrive is in
\* browserClients, and every later one is in vscodeClients.
C16_RolesFollowArrival ==
    \A i \in Instances :
        /\ \A s \in Range(browserClients[i]) :
               arrivals[i] # <<>> /\ s = arrivals[i][1]
        /\ \A k \in 2..Len(arrivals[i]) :
               arrivals[i][k] \notin Range(browserClients[i])

\* C17: a peer socket is in at most one of the two peer sets; a close or error
\* event leaves it in neither; a socket enters a set only as a new peer, never
\* after it has been accepted before.
C17_PeerSets ==
    [][\A i \in Instances, s \in Sockets :
          /\ ~(s \in Range(browserClients'[i]) /\ s \in Range(vscodeClients'[i]))
          /\ (SocketClose(i, s) \/ SocketError(i, s))
                => s \notin Range(browserClients'[i]) \cup Range(vscodeClients'[i])
          /\ (/\ s \in Range(browserClients'[i]) \cup Range(vscodeClients'[i])
              /\ s \notin Range(browserClients[i]) \cup Range(vscodeClients[i]))
                => acceptedBy[s] = 0 /\ readyState[s] = "CONNECTING"]_vars

\* a peer was removed and closed, and a later socket, as of a reconnecting
\* client, is open in a peer set
C17_Witness ==
    \E i \in Instances, s, t \in Sockets :
        /\ s < t
        /\ acceptedBy[s] = i /\ readyState[s] = "CLOSED"
        /\ acceptedBy[t] = i /\ readyState[t] = "OPEN"
        /\ t \in Range(browserClients[i]) \cup Range(vscodeClients[i])
        /\ s \notin Range(browserClients[i]) \cup Range(vscodeClients[i])

\* C18: once MAX_RECONNECT_ATTEMPTS connectToWebSocket calls in a row have
\* failed, with no manual connect and no other trigger, the client shows the
\* 'ERR' badge and has neither a call under way nor a reconnect timer set.
C18_StopsAtCeiling ==
    (manualLeft = MaxManual /\ startupPending
        /\ failedInRow >= MAX_RECONNECT_ATTEMPTS)
    => badge = "ERR" /\ \A c \in Chains : chain[c] = Off

\* C19: the popup's 'initiateConnection' in the failed state sets
\* reconnectAttempts back to 0.
C19_ManualConnectResets ==
    [][ManualConnect /\ badge = "ERR" => reconnectAttempts' = 0]_vars

\* C20: when the connection the client holds has closed after being open and
\* the ceiling is not reached, a reconnect timer is set or a connectToWebSocket
\* call is under way.
C20_DropLeadsToBackoff ==
    \A s \in Sockets :
        (websocket = s /\ s \notin clientOpen
            /\ reconnectAttempts < MAX_RECONNECT_ATTEMPTS)
        => \E c \in Chains : chain[c] # Off

C22_FlushFifo ==
    [][\A c \in Chains :
          connectToWebSocket(c) /\ websocket' # 0 /\ websocket' \notin clientOpen
              /\ throwsLeft' = throwsLeft
          => wire'[websocket'] =
                 SubSeq(closedSends, flushedUpTo + 1, Len(closedSends))]_vars

\* C23: a message is never written twice, and a message handed over while not
\* connected is written, still queued, or was given up at the retry ceiling.
C23_ExactlyOnce ==
    /\ \A s, t \in Sockets :
           \A j \in 1..Len(wire[s]), k \in 1..Len(wire[t]) :
               wire[s][j] = wire[t][k] => s = t /\ j = k
    /\ \A m \in Range(closedSends) :
           \/ \E s \in Sockets : m \in Range(wire[s])
           \/ \E k \in 1..Len(pendingMessages) : pendingMessages[k].msg = m
           \/ m \in gaveUp

\* C24: a queued message whose send fails in the flush on open is from then
\* on retried by a retrySendMessage with an attempt counter of at most
\* ERROR_RETRY_ATTEMPTS.
C24_FlushFailureRetried ==
    [][\A c \in Chains :
          connectToWebSocket(c) /\ websocket' # 0 /\ websocket' \notin clientOpen
          => \A k \in 1..Len(pendingMessages') :
                 \E r \in retries' :
                     /\ r.id = pendingMessages'[k].id
                     /\ r.msg = pendingMessages'[k].msg
                     /\ r.attempt <= ERROR_RETRY_ATTEMPTS]_vars

C27_NoIdSilentlyDropped ==
    [][\A m \in {BadJson, NullJson}, s \in Sockets :
          HandleMessageF(PanelServer, s, m, {}) => sent' = sent]_vars

\* C29: broadcasting the forwarded ai_response writes it exactly once to every
\* open editor-side peer whose send succeeds and to no automation-side peer
\* (the sender gets its acknowledgement after the broadcast); exactly the
\* open peers whose send throws leave vscodeClients, the others keep their
\* place, and the remaining peers are still written to.
C29_BroadcastBestEffort ==
    [][\A s \in Sockets :
        \A failing \in Throwers(PanelServer, s, NoticeMsg("ai_response")) :
          LET m == NoticeMsg("ai_response")
              editors == vscodeClients[PanelServer]
              Throws(t) == t \in failing /\ readyState[t] = "OPEN"
              Kept(t) == ~Throws(t)
              Reached(t) == /\ \E k \in 1..Len(editors) : editors[k] = t
                            /\ readyState[t] = "OPEN"
                            /\ ~Throws(t)
          IN  HandleMessageF(PanelServer, s, m, failing)
              => /\ \A t \in Sockets :
                        sent'[t] = sent[t]
                                   \o (IF Reached(t) THEN <<Forwarded>> ELSE <<>>)
                                   \o (IF t = s THEN <<Ack>> ELSE <<>>)
                 /\ vscodeClients'[PanelServer] = SelectSeq(editors, Kept)
                 /\ browserClients' = browserClients]_vars

\* after a broadcast: one editor-side peer holds the forwarded message, another
\* whose send threw is still open but no longer in vscodeClients and holds
\* nothing, and the automation-side sender holds only its acknowledgement
C29_Witness ==
    \E a, b, c \in Sockets :
        /\ browserClients[PanelServer] = <<a>>
        /\ vscodeClients[PanelServer] = <<c>>
        /\ b \notin {a, c}
        /\ readyState[b] = "OPEN" /\ acceptedBy[b] = PanelServer
        /\ sent[a] = <<Ack>>
        /\ sent[b] = <<>>
        /\ sent[c] = <<Forwarded>>

\* C26 as stated: handling a malformed or unroutable payload, or one on which
\* a registered handler throws, leaves the server listening with the same
\* peer sets and the same handler table.
C26_SamePeersAndHandlers ==
    [][\A s \in Sockets, m \in CatchInbound :
          HandleMessageF(PanelServer, s, m, {})
          => /\ wss' = wss
             /\ browserClients' = browserClients
             /\ vscodeClients' = vscodeClients
             /\ messageHandlers' = messageHandlers]_vars

\* C26: the same, except that a handler which throws has already taken itself
\* out of the handler table (the chat panel's handler unregisters before it
\* processes the Response): then the table has lost exactly that handler, and
\* the exception ended in handleMessage's catch, which answered the sender with
\* the 'Invalid request format' error Response.
C26_SurvivesBadInput ==
    [][\A s \in Sockets, m \in CatchInbound :
          HandleMessageF(PanelServer, s, m, {})
          => /\ wss' = wss
             /\ browserClients' = browserClients
             /\ vscodeClients' = vscodeClients
             /\ IF LookupKey(m) \in DOMAIN messageHandlers[PanelServer]
                THEN LET x == messageHandlers[PanelServer][LookupKey(m)]
                     IN  /\ HandlerThrows(x, m)
                         /\ DOMAIN messageHandlers'[PanelServer] =
                                DOMAIN messageHandlers[PanelServer] \ {ResponseKey(x)}
                         /\ sent' = [sent EXCEPT ![s] =
                                Append(@, ErrorResponse(Str("unknown"),
                                                        "Invalid request format"))]
                ELSE messageHandlers' = messageHandlers]_vars

\* a handler has thrown and been caught (its request shows hideTyping and
\* nothing after it, its handler is gone, a peer holds the error Response)
\* and an unroutable payload has been handled since, with the server
\* listening and both peer sets populated
C26_Witness ==
    /\ wss[PanelServer].listening
    /\ Len(browserClients[PanelServer]) = 1
    /\ Len(vscodeClients[PanelServer]) > 0
    /\ \E x \in Ids :
           /\ chatPosts[x] = <<"showTyping", "hideTyping">>
           /\ ResponseKey(x) \notin DOMAIN messageHandlers[PanelServer]
    /\ \E s \in Sockets :
           ErrorResponse(Str("unknown"), "Invalid request format") \in Range(sent[s])
    /\ inboundCount = 0

\* C28: sendRequestToBrowserExtension, called by the chat panel, returns true
\* (the panel shows only the typing indicator) only if the request was written
\* to the first-registered automation-side peer and that peer was open; it
\* returns false (the panel reports the send failure) with nothing written and
\* the peer sets and the handler table as before, and does so whenever no
\* automation-side peer is registered or the first one is not open.
C28_SendToBrowserOutcome ==
    [][\A w \in BOOLEAN :
          ChatHandleUserMessage(w)
          => LET id == Uuid(uuidCount + 1)
                 bc == browserClients[PanelServer]
                 returnedTrue == chatPosts'[id] = <<"showTyping">>
                 returnedFalse == chatPosts'[id] = <<"showTyping", "hideTyping", "sendError">>
             IN  /\ returnedTrue \/ returnedFalse
                 /\ returnedTrue
                    => /\ Len(bc) > 0
                       /\ readyState[Head(bc)] = "OPEN"
                       /\ sent' = [sent EXCEPT ![Head(bc)] =
                                      Append(@, RequestMsg(id, "CODE_SUGGEST"))]
                 /\ returnedFalse
                    => /\ sent' = sent
                       /\ messageHandlers' = messageHandlers
                 /\ (Len(bc) = 0 \/ ~w) => returnedFalse
                 /\ (Len(bc) > 0 /\ readyState[Head(bc)] # "OPEN") => returnedFalse
                 /\ browserClients' = browserClients
                 /\ vscodeClients' = vscodeClients]_vars

\* the chat panel has had all three outcomes short of success: one request
\* failed to send and left nothing behind, while the automation-side peer is
\* registered but closing; and an earlier request was written to it
C28_Witness ==
    \E x, y \in Ids :
        /\ Len(browserClients[PanelServer]) > 0
        /\ readyState[Head(browserClients[PanelServer])] = "CLOSING"
        /\ chatPosts[x] = <<"showTyping">>
        /\ RequestMsg(x, "CODE_SUGGEST") \in Range(sent[Head(browserClients[PanelServer])])
        /\ chatPosts[y] = <<"showTyping", "hideTyping", "sendError">>
        /\ ResponseKey(y) \notin DOMAIN messageHandlers[PanelServer]

\* C30: whatever createRequest or createResponse built, parsing its serialised
\* text gives a message (not null) equal to it field for field.
C30_RoundTrip ==
    roundTrip # NoMessage => roundTrip = built

(***************************************************************************)
(* ProtocolManager: parsing and validation                                 *)
(***************************************************************************)
\* C31: parseMessage never throws: whatever the text, it returns null or a
\* value one of the validators accepts; it returns null for text that is not
\* JSON, for the JSON texts null, a number and an array, and for an object
\* that neither validator accepts.
C31_ParseReturnsValidOrNull ==
    call.op = "parseMessage"
    => LET r == call.result
           text == call.arg
       IN  /\ r # Thrown
           /\ r = Null \/ validateRequest(r) \/ validateResponse(r)
           /\ text.json # "object" => r = Null
           /\ (/\ text.json = "object"
               /\ ~validateRequest(JsonParse(text))
               /\ ~validateResponse(JsonParse(text)))
              => r = Null

\* parseMessage was given the JSON text null, on which the validator throws,
\* and returned null
C31_Witness ==
    /\ call.op = "parseMessage"
    /\ call.arg = NullText
    /\ call.result = Null

\* C32: validateRequest accepts a value exactly when it is an object with an
\* id that is a string, an action_type among the three, a context that is an
\* object and a user_query that is a string; extra fields change nothing.
C32_ValidRequestIffShape ==
    call.op = "validate"
    => LET x == call.arg
       IN  call.result.request = "true"
           <=> /\ JsType(x) = "object" /\ x # Null
               /\ TypeOf(Get(x, "id")) = "string"
               /\ \E a \in ActionTypes : StrictEq(Get(x, "action_type"), a)
               /\ Get(x, "context").t = "object"
               /\ TypeOf(Get(x, "user_query")) = "string"

\* C33: validateResponse accepts a value exactly when it is an object with a
\* request_id that is a string, a status of success or error, a data object
\* with content and a security object with requires_confirmation and
\* confidence; data null is rejected; extra fields change nothing.
C33_ValidResponseIffShape ==
    call.op = "validate"
    => LET x == call.arg
       IN  call.result.response = "true"
           <=> /\ JsType(x) = "object" /\ x # Null
               /\ TypeOf(Get(x, "request_id")) = "string"
               /\ \E st \in {"success", "error"} : StrictEq(Get(x, "status"), st)
               /\ Get(x, "data") = Obj("content")
               /\ Get(x, "security") = Obj("security")

\* C34: an inbound message that carries the request_id of a registered
\* response_<request_id> handler is delivered to that handler, also when the
\* message carries an action_type as well.
C34_ResponseHandlerFirst ==
    [][\A x \in Ids :
         ResponseKey(x) \in DOMAIN messageHandlers[PanelServer]
         => \A s \in Sockets :
              (readyState[s] = "OPEN" /\ acceptedBy[s] = PanelServer)
              => \A m \in {mm \in OrderInbound : StrictEq(mm.request_id, x)} :
                   \A failing \in Throwers(PanelServer, s, m) :
                     (/\ inboundCount' # inboundCount
                      /\ HandleMessageF(PanelServer, s, m, failing))
                     => handlerCalls'[x] = handlerCalls[x] + 1]_vars

\* C39: the handler registered under response_<id> is invoked only by an
\* inbound message whose request_id equals id, never by one that selects the
\* key through its action_type.
C39_NoKeyCollision ==
    [][\A x \in Ids :
         handlerCalls'[x] # handlerCalls[x]
         => \A s \in Sockets, m \in OrderInbound :
              (/\ inboundCount' # inboundCount
               /\ HandleMessageF(PanelServer, s, m, {}))
              => /\ StrictEq(m.request_id, x)
                 /\ ~StrictEq(m.action_type, ResponseKey(x))]_vars


\* C38: every Response-shaped message the two sides emit is accepted by
\* validateResponse, and parseMessage of its text is not null.
C38_EmittedResponsesValid ==
    call.op = "emit"
    => /\ Verdict(call.arg, validateResponse(call.arg)) = "true"
       /\ call.result # Null


\* C37: every listening socket a ParsianServer instance created and has not
\* closed is the one this.wss refers to, so after stop() none of its sockets
\* is listening.
C37_OneListeningSocket ==
    \A i \in Instances, p \in Ports :
        held[p] = i => (Listening(i) /\ wss[i].port = p)


\* C40: the editor-side status reports connected only while a server is
\* there: isConnectedToBrowser() is true only if getServer() is not null.
C40_ConnectedNeedsServer ==
    isConnectedToBrowser => getServer # 0


\* C35: while a server listens on a port outside the preferred list, a
\* connectToWebSocket call that has failed on the last preferred port goes on
\* to the published port instead of ending in handleDisconnection.
C35_FallsBackToPublishedPort ==
    [][\A c \in Chains :
         (/\ chain[c] = Sweep(NumCommonPorts - 1)
          /\ \E i \in Instances : Listening(i) /\ wss[i].port \notin CommonPorts
          /\ \E s \in Sockets : FreshSocket(s)
          /\ chain'[c] # chain[c])
         => chain'[c].pc \notin {"wait", "off"} \/ websocket' # 0]_vars

\* C36: every client socket that is open is the one the global websocket
\* refers to, also when calls of connectToWebSocket overlap.
C36_OneLiveSocket ==
    \A s \in clientOpen : readyState[s] = "OPEN" => s = websocket


====
